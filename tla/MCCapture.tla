------------------------------ MODULE MCCapture ------------------------------
(* Capture with a light, a colour fixture, the layouts of a dimmer command and *)
(* (in part) of a thermostat command, and two sources of transfers.            *)
EXTENDS Capture

MCRgb == [s \in {2} |-> <<3, 4, 5>>]

Whole(from, to) == [from |-> from, to |-> to, bit |-> 0, width |-> 0]
Slot(byte, bit, width) == [from |-> byte, to |-> byte, bit |-> bit, width |-> width]

MCLayouts == [
    dimmer |-> [instance |-> Whole(0, 0), group |-> Whole(1, 1),
                desired_level |-> Whole(2, 2), command |-> Whole(3, 3),
                duration |-> Whole(4, 4), interlock |-> Slot(5, 0, 2)],
    thermostat |-> [instance |-> Whole(0, 0), operating_mode |-> Slot(1, 0, 4),
                    fan_mode |-> Slot(1, 4, 2), heat |-> Whole(3, 4)]]

Ask(dgn, instance, values) == [dgn |-> dgn, instance |-> instance, values |-> values]

MCRequests == {
    Ask("thermostat", 1, [fan_mode |-> 5, heat |-> 9500]),
    Ask("thermostat", 1, [heat |-> 65536]),
    Ask("thermostat", 1, [fans |-> 1]),
    Ask("dimmer", 1, [desired_level |-> 255, command |-> 0]),
    Ask("dimmer", 3, [desired_level |-> 250, command |-> 0]),
    Ask("dimmer", 1, [instance |-> 2, desired_level |-> 254, command |-> 17])}

MCRaws == {0, 25}
MCBrightness == {128, 255}
MCColours == {<<>>, [k \in {1, 3} |-> 255]}

=============================================================================
