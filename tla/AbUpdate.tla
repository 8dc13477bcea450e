------------------------------ MODULE AbUpdate ------------------------------
(***************************************************************************)
(* What an over-the-air update with two ROM slots promises.  One slot      *)
(* holds the firmware that runs; an update may only touch the other one,   *)
(* and an update that reports success has left a whole image there.  The   *)
(* operator may also select a slot by hand (AT SWITCH), whole or not; the  *)
(* boot loader then has the last word.                                     *)
(***************************************************************************)
CONSTANT Slots

VARIABLES
    image,      \* [Slots -> {"whole", "partial"}]: what each slot holds
    selected,   \* the slot the boot configuration names
    running,    \* the slot whose code is executing
    reported    \* TRUE after an update said it succeeded, until the next boot

abVars == <<image, selected, running, reported>>

Init ==
    /\ image \in [Slots -> {"whole", "partial"}]
    /\ running \in Slots
    /\ selected = running
    /\ image[running] = "whole"
    /\ reported = FALSE

\* A piece of a download reaches a slot that is not executing.
Overwrite(s) ==
    /\ s # running
    /\ \E i \in {"whole", "partial"} : image' = [image EXCEPT ![s] = i]
    /\ UNCHANGED <<selected, running, reported>>

\* The last piece arrived: the slot holds a whole image and, if the boot
\* configuration could be saved, it is the one that boots next.
Succeed(s) ==
    /\ s # running
    /\ image' = [image EXCEPT ![s] = "whole"]
    /\ selected' \in {selected, s}
    /\ reported' = TRUE
    /\ UNCHANGED running

\* The operator names another slot, or a lost configuration the default one.
Switch(s) ==
    /\ selected' = s
    /\ UNCHANGED <<image, running, reported>>

\* The selected slot boots when it is whole, else one that is.
Boot(s) ==
    /\ image[s] = "whole"
    /\ image[selected] = "whole" => s = selected
    /\ running' = s
    /\ selected' = s
    /\ reported' = FALSE
    /\ UNCHANGED image

Next == \E s \in Slots : Overwrite(s) \/ Succeed(s) \/ Switch(s) \/ Boot(s)

Spec == Init /\ [][Next]_abVars
=============================================================================
