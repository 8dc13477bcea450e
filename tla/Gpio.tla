-------------------------------- MODULE Gpio --------------------------------
(***************************************************************************)
(* The GPIO driver (gpio16.c) as functions of what the pins are: whether   *)
(* the chip drives a pin, the level it drives, and the level the board     *)
(* around it gives a pin that nobody drives.  Pull-ups are left out, and   *)
(* so are interrupts: the program's handler for them does nothing.         *)
(***************************************************************************)
EXTENDS Naturals

GPIO_INPUT  == 0
GPIO_OUTPUT == 1
GPIO_INT    == 2

Pin == [drive: BOOLEAN, out: 0..1]

\* gpio_read: a pin reads as what the chip drives, or else as its surroundings.
gpio_read(pins, outside, p) == IF pins[p].drive THEN pins[p].out ELSE outside[p]

\* Output mode selects the function of the pin and clears its open drain; what
\* makes the chip drive it is the first write.  GPIO16 belongs to the RTC and has
\* registers of its own: there, the mode does.
set_gpio_mode(pins, p, mode) ==
    [pins EXCEPT ![p].drive = mode = GPIO_OUTPUT /\ (@ \/ p = "GPIO16")]

gpio_write(pins, p, level) == [pins EXCEPT ![p] = [drive |-> TRUE, out |-> level]]

\* The levels gpio_pulse writes one after the other: GPIO16 goes up and down, any
\* other pin away from the level it is read at, and back.
gpio_pulse(pins, outside, p) ==
    LET level == gpio_read(pins, outside, p)
    IN IF p = "GPIO16" THEN <<1, 0>> ELSE <<1 - level, level>>
=============================================================================
