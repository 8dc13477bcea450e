------------------------------ MODULE UartLine ------------------------------
(***************************************************************************)
(* The pins of the board and the serial line (uart.c, io.c): a timer that  *)
(* watches the alarm contact, takes the line, sends the alarm byte and     *)
(* puts the board to sleep; the receive interrupt, which gives the line    *)
(* back; and the commands that use pins.                                   *)
(*                                                                         *)
(* The program has one task, whose handlers do not preempt each other, and *)
(* one interrupt handler, which preempts the task anywhere.  A handler of  *)
(* the task is therefore a sequence of steps (todo), and the interrupt may *)
(* come between any two.                                                   *)
(*                                                                         *)
(* GPIO0 and GPIO5 are contacts, GPIO4 is INTCOM, GPIO12 enables the       *)
(* transmitter when low, and GPIO14 is shared with the ARM processor.      *)
(***************************************************************************)
EXTENDS Gpio, Sequences

CONSTANTS
    CommandPins   \* pins AT GPIO2, GPIO15 (PISCALED) and GPIO16 are used for

ASSUME BoardAssumption == CommandPins \subseteq {"GPIO2", "GPIO15", "GPIO16"}

VARIABLES
    pins,     \* what the chip does with each pin
    outside,  \* the level the surroundings give each pin
    todo,     \* the rest of the handler the task is in
    power,    \* "boot", "on", "sleeping" (a deep sleep was asked for), "asleep"
    softap,   \* the Wi-Fi mode is SOFTAP_MODE
    timer,    \* resetBtntimer: "armed" or "disarmed"
    intr,     \* the UART interrupt is enabled
    rxfifo,   \* the receive FIFO holds something: no code ever takes it out
    frmerr,   \* a framing error is pending
    alarm,    \* the alarm byte: "none", "queued", "sent", or "muted"
    crossed   \* history: since the transmitter was last enabled, the interrupt
              \* ran just before INTCOM was raised and found it high from outside

uart  == <<intr, rxfifo, frmerr, alarm, crossed>>
board == <<pins, outside, todo>>
vars  == <<board, power, softap, timer, uart>>

Contacts == {"GPIO0", "GPIO5"}
Pins     == Contacts \cup {"GPIO4", "GPIO12", "GPIO14"} \cup CommandPins
NoPin    == "no pin"

TypeOK ==
    /\ pins \in [Pins -> Pin]
    /\ outside \in [Pins -> 0..1]
    /\ todo \in Seq({"mode", "write", "await", "pulse", "timer", "intr", "reset",
                     "send", "sleep", "ready"} \X (Pins \cup {NoPin}) \X (0..2))
    /\ power \in {"boot", "on", "sleeping", "asleep"}
    /\ timer \in {"armed", "disarmed"}
    /\ alarm \in {"none", "queued", "sent", "muted"}
    /\ softap \in BOOLEAN /\ intr \in BOOLEAN /\ rxfifo \in BOOLEAN /\ frmerr \in BOOLEAN
    /\ crossed \in BOOLEAN

Running   == power # "asleep"
TxEnabled == pins["GPIO12"] = [drive |-> TRUE, out |-> 0]
HoldsLine == pins["GPIO4"] = [drive |-> TRUE, out |-> 1]

-----------------------------------------------------------------------------
(***************************** Handlers as steps ***************************)

Mode(p, m)  == <<"mode", p, m>>
Write(p, l) == <<"write", p, l>>
Await(p, l) == <<"await", p, l>>     \* while (gpio_read(p) != l);
Do(op, n)   == <<op, NoPin, n>>

\* uart0_tx_buffer with the alarm byte: take the line, then send.
uart0_tx_buffer ==
    <<Mode("GPIO4", GPIO_OUTPUT), Write("GPIO12", 0), Write("GPIO4", 1), Do("send", 0)>>

\* What pulseTimer does about a closed contact.
Alarm_no_sleep == uart0_tx_buffer \o <<Do("timer", 0)>>          \* mutant
Alarm == uart0_tx_buffer \o <<Do("timer", 0), Do("sleep", 0)>>

ioTimerInit == <<Do("timer", 0), Do("timer", 1)>>

\* Start-up waits until the alarm contact is open.
Input(p) == IF p \in Pins THEN <<Mode(p, GPIO_INPUT)>> ELSE <<>>

ioInit ==
    <<Await("GPIO0", 1), Mode("GPIO0", GPIO_INT)>>
        \o Input("GPIO2") \o Input("GPIO12") \o Input("GPIO14")
        \o Input("GPIO15") \o Input("GPIO16")

\* uart_config empties the FIFOs and clears the pending interrupts.
uart_init ==
    <<Do("reset", 0), Do("intr", 1), Mode("GPIO12", GPIO_OUTPUT),
      Write("GPIO12", 1), Mode("GPIO4", GPIO_INPUT)>>

user_init == ioTimerInit \o ioInit \o uart_init \o <<Do("ready", 0)>>

\* AT GPIO2, GPIO15, PISCALED and GPIO16: low, high, or a pulse.
config_cmd_gpio(p) == {<<Write(p, 0)>>, <<Write(p, 1)>>, <<<<"pulse", p, 0>>>>}

\* GPIO14 with the given levels written to it.
Drive14_kept(levels) ==                                          \* mutant
    <<Await("GPIO14", 0), Mode("GPIO14", GPIO_OUTPUT)>>
        \o [i \in DOMAIN levels |-> Write("GPIO14", levels[i])]
Drive14(levels) ==
    <<Await("GPIO14", 0), Mode("GPIO14", GPIO_OUTPUT)>>
        \o [i \in DOMAIN levels |-> Write("GPIO14", levels[i])]
        \o <<Mode("GPIO14", GPIO_INPUT)>>

\* AT MAPA without an argument, with one it refuses, and with one it knows; the
\* width of the pulse, which tells them apart, takes no step.
config_cmd_mapping == {<<Await("GPIO14", 0)>>, Drive14(<<0>>), Drive14(<<0, 1, 0>>)}

config_cmd_reset_dsp == {<<Await("GPIO14", 0)>>, Drive14(<<1, 0>>)}

\* AT AP, and flash_param_write: they disable the UART interrupt and enable it.
Guarded == {<<Do("intr", 0), Do("intr", 1)>>}

config_cmd_deep_sleep == {<<Do("sleep", 0)>>}

Commands == (UNION {config_cmd_gpio(p) : p \in CommandPins})
                \cup config_cmd_mapping \cup config_cmd_reset_dsp
                \cup Guarded \cup config_cmd_deep_sleep

-----------------------------------------------------------------------------
(********************************** The task *******************************)

\* The next step of the handler.
PinStep ==
    LET op == Head(todo)[1]  p == Head(todo)[2]  n == Head(todo)[3] IN
    /\ \/ /\ op = "mode" /\ pins' = set_gpio_mode(pins, p, n)
          /\ todo' = Tail(todo)
       \/ /\ op = "write" /\ pins' = gpio_write(pins, p, n)
          /\ todo' = Tail(todo)
       \/ /\ op = "await" /\ gpio_read(pins, outside, p) = n
          /\ todo' = Tail(todo) /\ UNCHANGED pins
       \/ /\ op = "pulse"
          /\ LET levels == gpio_pulse(pins, outside, p)
             IN todo' = <<Write(p, levels[1]), Write(p, levels[2])>> \o Tail(todo)
          /\ UNCHANGED pins
    /\ crossed' = (crossed /\ Head(todo) # Write("GPIO12", 0))
    /\ UNCHANGED <<outside, power, softap, timer, intr, rxfifo, frmerr, alarm>>

DeviceStep ==
    LET op == Head(todo)[1]  n == Head(todo)[3] IN
    /\ op \in {"timer", "intr", "reset", "send", "sleep", "ready"}
    /\ todo' = Tail(todo)
    /\ timer' = IF op # "timer" THEN timer ELSE IF n = 1 THEN "armed" ELSE "disarmed"
    /\ intr' = IF op = "intr" THEN n = 1 ELSE intr
    /\ rxfifo' = (rxfifo /\ op # "reset")
    /\ frmerr' = (frmerr /\ op # "reset")
    /\ alarm' = IF op = "send" THEN "queued" ELSE alarm
    /\ power' = CASE op = "sleep" -> "sleeping" [] op = "ready" -> "on"
                  [] OTHER -> power
    /\ UNCHANGED <<pins, outside, softap, crossed>>

Step == Running /\ todo # <<>> /\ (PinStep \/ DeviceStep)

\* resetBtntimer expires, every 62 ms.
ContactClosed == softap /\ gpio_read(pins, outside, "GPIO5") = 0

pulseTimer_once ==                                               \* mutant
    /\ timer' = "disarmed"
    /\ todo' = IF ContactClosed THEN Alarm ELSE <<>>
pulseTimer ==
    /\ UNCHANGED timer
    /\ todo' = IF ContactClosed THEN Alarm ELSE <<>>

PulseTimer ==
    /\ power \in {"on", "sleeping"} /\ todo = <<>> /\ timer = "armed"
    /\ pulseTimer
    /\ UNCHANGED <<pins, outside, power, softap, uart>>

Command ==
    /\ power = "on" /\ todo = <<>>
    /\ todo' \in Commands
    /\ UNCHANGED <<pins, outside, power, softap, timer, uart>>

\* AT STA leaves SOFTAP_MODE until the next restart.
config_cmd_sta ==
    /\ power = "on" /\ todo = <<>> /\ softap
    /\ softap' = FALSE
    /\ UNCHANGED <<board, power, timer, uart>>

-----------------------------------------------------------------------------
(****************************** The interrupt ******************************)

\* Something was received while INTCOM is high: the line is given back.
Released_any ==                                                  \* mutant
    IF gpio_read(pins, outside, "GPIO4") = 1
    THEN /\ timer' = "armed"
         /\ pins' = set_gpio_mode(gpio_write(gpio_write(pins, "GPIO4", 0), "GPIO12", 1),
                                  "GPIO4", GPIO_INPUT)
    ELSE UNCHANGED <<pins, timer>>
Released_tx_only ==                                             \* mutant
    IF rxfifo /\ gpio_read(pins, outside, "GPIO4") = 1
    THEN timer' = "armed" /\ pins' = gpio_write(pins, "GPIO12", 1)
    ELSE UNCHANGED <<pins, timer>>
Released ==
    IF rxfifo /\ gpio_read(pins, outside, "GPIO4") = 1
    THEN /\ timer' = "armed"
         /\ pins' = set_gpio_mode(gpio_write(gpio_write(pins, "GPIO4", 0), "GPIO12", 1),
                                  "GPIO4", GPIO_INPUT)
    ELSE UNCHANGED <<pins, timer>>

\* The handler interrupts the task between "TX enable" and "INTCOM enable", and
\* gives back a line it sees taken although it is a cable that holds INTCOM.
Crossing ==
    /\ todo # <<>> /\ Head(todo) = Write("GPIO4", 1)
    /\ rxfifo /\ ~pins["GPIO4"].drive /\ outside["GPIO4"] = 1

\* A framing error, or else a byte: then the interrupt disables itself and posts
\* to a task that does not exist.
uart0_rx_intr_handler ==
    /\ Running /\ intr
    /\ \/ frmerr /\ frmerr' = FALSE /\ UNCHANGED intr
       \/ ~frmerr /\ rxfifo /\ intr' = FALSE /\ UNCHANGED frmerr
    /\ Released
    /\ crossed' = (crossed \/ Crossing)
    /\ UNCHANGED <<outside, todo, power, softap, rxfifo, alarm>>

-----------------------------------------------------------------------------
(**************************** The surroundings *****************************)

\* The alarm byte leaves the FIFO; it is heard if the transmitter is enabled.
Transmit ==
    /\ Running /\ alarm = "queued"
    /\ alarm' = IF TxEnabled THEN "sent" ELSE "muted"
    /\ UNCHANGED <<board, power, softap, timer, intr, rxfifo, frmerr, crossed>>

Receive ==
    /\ Running
    /\ \/ ~rxfifo /\ rxfifo' = TRUE /\ UNCHANGED frmerr
       \/ ~frmerr /\ frmerr' = TRUE /\ UNCHANGED rxfifo
    /\ UNCHANGED <<board, power, softap, timer, intr, alarm, crossed>>

\* A contact opens or closes, the ARM takes or gives back its pin, a cable is
\* plugged in and drives INTCOM, or not.
Change ==
    /\ \E p \in Contacts \cup {"GPIO14", "GPIO4"} :
          outside' = [outside EXCEPT ![p] = 1 - @]
    /\ UNCHANGED <<pins, todo, power, softap, timer, uart>>

\* system_deep_sleep takes effect once the task is idle, some 100 ms later: by
\* then a byte at any usual rate has left.
FallAsleep ==
    /\ power = "sleeping" /\ todo = <<>> /\ alarm # "queued"
    /\ power' = "asleep"
    /\ UNCHANGED <<board, softap, timer, uart>>

-----------------------------------------------------------------------------

AllInputs == [p \in Pins |-> [drive |-> FALSE, out |-> 0]]

Init ==
    /\ pins = AllInputs
    /\ outside \in [Pins -> 0..1]
    /\ \A p \in Pins : outside[p] = 1 => p \in Contacts \cup {"GPIO14"}
    /\ todo = user_init
    /\ power = "boot"
    /\ softap = TRUE
    /\ timer = "disarmed"
    /\ intr = FALSE /\ rxfifo = FALSE /\ frmerr = FALSE
    /\ alarm = "none" /\ crossed = FALSE

\* A reset: by a command, the watchdog, or the end of a deep sleep.
Restart ==
    /\ pins' = AllInputs
    /\ todo' = user_init
    /\ power' = "boot"
    /\ softap' = TRUE
    /\ timer' = "disarmed"
    /\ intr' = FALSE /\ rxfifo' = FALSE /\ frmerr' = FALSE
    /\ alarm' = "none" /\ crossed' = FALSE
    /\ UNCHANGED outside

Next ==
    \/ Step \/ PulseTimer \/ Command \/ config_cmd_sta
    \/ uart0_rx_intr_handler
    \/ Transmit \/ Receive \/ Change \/ FallAsleep
    \/ Restart

Spec == Init /\ [][Next]_vars

\* The task runs; a timer that has expired is served although commands arrive.
Fairness == WF_vars(Step) /\ SF_vars(PulseTimer)

FairSpec == Spec /\ Fairness

-----------------------------------------------------------------------------
(******************************** Properties *******************************)

\* Wherever the interrupt comes between the steps that take the line, it leaves
\* the board signalling on INTCOM with its transmitter on ("TX enable", "INTCOM
\* enable"), or not signalling at all, but for one place: just before INTCOM is
\* raised, with a cable holding it high.  Then the handler turns the transmitter
\* off and the task raises INTCOM all the same, for an alarm nobody hears.
TxWhileHolding == HoldsLine => (TxEnabled <=> ~crossed)

\* The alarm byte leaves through an enabled transmitter unless something had been
\* received: only the interrupt turns the transmitter off.
MutedByReception == alarm = "muted" => rxfifo

\* Between handlers the board does not drive the pin it shares with the ARM
\* processor, whichever way AT MAPA or AT RESETDSP ended.
ArmPinReleased == todo = <<>> => ~pins["GPIO14"].drive

\* The contact is watched: the timer is disarmed only on the way to a deep sleep.
TimerLives ==
    power = "on" /\ timer = "disarmed" =>
        \E i \in DOMAIN todo : todo[i] = Do("sleep", 0)

\* A contact that stays closed raises the alarm, whatever commands and interrupts
\* do, as long as the board stays on and in SOFTAP_MODE and the ARM does not hold
\* up a command.
AlarmDue ==
    power = "on" /\ softap /\ outside["GPIO5"] = 0 /\ outside["GPIO14"] = 0

AlarmRaised == AlarmDue ~> alarm # "none" \/ ~AlarmDue
=============================================================================
