--------------------------- MODULE UartLine_proofs ---------------------------
(***************************************************************************)
(* Proofs about UartLine for every set of command pins.  The task's        *)
(* handler is known from what is left of it (todo): the start, the alarm,  *)
(* a command that uses the ARM's pin, or another one.                      *)
(* The invariant Line says for each point of the alarm what the interrupt, *)
(* which may have come in between, has left of the two pins of the line.   *)
(***************************************************************************)
EXTENDS UartLine, SequenceTheorems, TLAPS

\* s is what is left of the handler h.
Rest(s, h) == Len(s) <= Len(h)
              /\ \A i \in 1 .. Len(s) : s[i] = h[Len(h) - Len(s) + i]

AllSteps == {"mode", "write", "await", "pulse", "timer", "intr", "reset",
             "send", "sleep", "ready"} \X (Pins \cup {NoPin}) \X (0..2)

-----------------------------------------------------------------------------
(********************************* Handlers *********************************)

LEMMA StepKinds ==
    /\ \A p \in Pins, m \in 0..2 : Mode(p, m) \in AllSteps
    /\ \A p \in Pins, l \in 0..1 : Write(p, l) \in AllSteps /\ Await(p, l) \in AllSteps
    /\ \A p \in Pins : <<"pulse", p, 0>> \in AllSteps
    /\ \A n \in 0..2 : Do("timer", n) \in AllSteps /\ Do("intr", n) \in AllSteps
                       /\ Do("reset", n) \in AllSteps /\ Do("send", n) \in AllSteps
                       /\ Do("sleep", n) \in AllSteps /\ Do("ready", n) \in AllSteps
BY DEF Mode, Write, Await, Do, AllSteps

LEMMA SomePins ==
    /\ {"GPIO0", "GPIO4", "GPIO5", "GPIO12", "GPIO14"} \subseteq Pins
    /\ CommandPins \subseteq Pins
    /\ "GPIO4" \notin CommandPins /\ "GPIO12" \notin CommandPins /\ "GPIO14" \notin CommandPins
BY BoardAssumption DEF Pins, Contacts

\* Sequences of one element, and two sequences joined.
LEMMA Single ==
    ASSUME NEW S, NEW e \in S
    PROVE  <<e>> \in Seq(S) /\ Len(<<e>>) = 1 /\ <<e>>[1] = e /\ <<e>> # <<>>
OBVIOUS

LEMMA Joined ==
    ASSUME NEW S, NEW s \in Seq(S), NEW t \in Seq(S)
    PROVE  /\ s \o t \in Seq(S) /\ Len(s) \in Nat /\ Len(t) \in Nat
           /\ Len(s \o t) = Len(s) + Len(t)
           /\ \A i \in 1 .. Len(s) + Len(t) :
                 (s \o t)[i] = IF i <= Len(s) THEN s[i] ELSE t[i - Len(s)]
BY ConcatProperties, LenProperties

LEMMA EmptyIs == ASSUME NEW S, NEW s \in Seq(S) PROVE s = <<>> <=> Len(s) = 0
BY EmptySeq

\* What is left after the next step is left of the same handler.
LEMMA RestOfRest ==
    ASSUME NEW S, NEW s \in Seq(S), NEW h \in Seq(S), s # <<>>, Rest(s, h)
    PROVE  /\ Tail(s) \in Seq(S) /\ Rest(Tail(s), h) /\ Len(Tail(s)) = Len(s) - 1
           /\ Head(s) = h[Len(h) - Len(s) + 1] /\ Len(s) \in 1 .. Len(h)
           /\ Tail(s) = <<>> <=> Len(s) = 1
<1>1. /\ Len(s) \in Nat \ {0} /\ Len(h) \in Nat /\ Head(s) = s[1]
      /\ Tail(s) \in Seq(S) /\ Len(Tail(s)) = Len(s) - 1
      /\ \A i \in 1 .. Len(Tail(s)) : Tail(s)[i] = s[i + 1]
  BY HeadTailProperties, LenProperties, EmptySeq
<1>2. Head(s) = h[Len(h) - Len(s) + 1] /\ Len(s) \in 1 .. Len(h)
  BY <1>1 DEF Rest
<1>3. Rest(Tail(s), h)
  <2> SUFFICES ASSUME NEW i \in 1 .. Len(Tail(s))
               PROVE  Tail(s)[i] = h[Len(h) - Len(Tail(s)) + i]
    BY <1>1 DEF Rest
  <2>1. i + 1 \in 1 .. Len(s) /\ Tail(s)[i] = s[i + 1]
    BY <1>1
  <2>2. s[i + 1] = h[Len(h) - Len(s) + (i + 1)]
    BY <2>1 DEF Rest
  <2>3. Len(h) - Len(s) + (i + 1) = Len(h) - Len(Tail(s)) + i
    BY <1>1
  <2>4. QED
    BY <2>1, <2>2, <2>3
<1>4. Tail(s) = <<>> <=> Len(s) = 1
  <2>1. Tail(s) \in Seq(S)
    BY <1>1
  <2>2. Tail(s) = <<>> <=> Len(Tail(s)) = 0
    BY <2>1, EmptyIs, Zenon
  <2>3. QED
    BY <1>1, <2>2
<1>5. QED
  BY <1>1, <1>2, <1>3, <1>4

LEMMA RestOfItself == ASSUME NEW S, NEW h \in Seq(S) PROVE Rest(h, h)
BY LenProperties DEF Rest

\* The alarm, step by step.
LEMMA AlarmSteps ==
    /\ Alarm \in Seq(AllSteps) /\ Len(Alarm) = 6
    /\ Alarm[1] = Mode("GPIO4", GPIO_OUTPUT) /\ Alarm[2] = Write("GPIO12", 0)
    /\ Alarm[3] = Write("GPIO4", 1) /\ Alarm[4] = Do("send", 0)
    /\ Alarm[5] = Do("timer", 0) /\ Alarm[6] = Do("sleep", 0)
<1> DEFINE s == <<Mode("GPIO4", GPIO_OUTPUT), Write("GPIO12", 0), Write("GPIO4", 1),
                  Do("send", 0)>>
           t == <<Do("timer", 0), Do("sleep", 0)>>
<1>1. /\ Mode("GPIO4", GPIO_OUTPUT) \in AllSteps /\ Write("GPIO12", 0) \in AllSteps
      /\ Write("GPIO4", 1) \in AllSteps /\ Do("send", 0) \in AllSteps
      /\ Do("timer", 0) \in AllSteps /\ Do("sleep", 0) \in AllSteps
  BY StepKinds, SomePins DEF GPIO_OUTPUT
<1>2. s \in Seq(AllSteps) /\ t \in Seq(AllSteps) /\ Len(s) = 4 /\ Len(t) = 2
  BY <1>1
<1>3. Alarm = s \o t
  BY DEF Alarm, uart0_tx_buffer
<1>4. /\ Alarm \in Seq(AllSteps) /\ Len(Alarm) = 6
      /\ \A i \in 1..6 : Alarm[i] = IF i <= 4 THEN s[i] ELSE t[i - 4]
  BY <1>2, <1>3, ConcatProperties
<1>5. QED
  BY <1>4

\* The steps of the start after ioTimerInit: none of them arms or disarms the timer.
StartSteps ==
    {Mode(p, m) : p \in {"GPIO0"}, m \in {GPIO_INT}} \cup {Mode(p, GPIO_INPUT) : p \in Pins}
        \cup {Mode("GPIO12", GPIO_OUTPUT), Write("GPIO12", 1), Await("GPIO0", 1),
              Do("reset", 0), Do("intr", 1)}

LEMMA StartInputs == ASSUME NEW p PROVE Input(p) \in Seq(StartSteps)
<1>1. CASE p \in Pins
  <2>1. Mode(p, GPIO_INPUT) \in StartSteps
    BY <1>1 DEF StartSteps
  <2>2. QED
    BY <1>1, <2>1, Single DEF Input
<1>2. CASE p \notin Pins
  BY <1>2, EmptySeq DEF Input
<1>3. QED
  BY <1>1, <1>2

\* The start begins with ioTimerInit and ends with the step that tells it is over.
LEMMA StartIs ==
    /\ user_init \in Seq(AllSteps) /\ Len(user_init) \in Nat /\ Len(user_init) > 2
    /\ user_init[1] = Do("timer", 0) /\ user_init[2] = Do("timer", 1)
    /\ user_init[Len(user_init)] = Do("ready", 0)
    /\ \A i \in 3 .. Len(user_init) - 1 : user_init[i] \in StartSteps
<1>1. StartSteps \subseteq AllSteps
  BY StepKinds, SomePins DEF StartSteps, GPIO_INPUT, GPIO_OUTPUT, GPIO_INT
<1>2. ioInit \in Seq(StartSteps)
  <2>1. /\ Input("GPIO2") \in Seq(StartSteps) /\ Input("GPIO12") \in Seq(StartSteps)
        /\ Input("GPIO14") \in Seq(StartSteps) /\ Input("GPIO15") \in Seq(StartSteps)
        /\ Input("GPIO16") \in Seq(StartSteps)
    BY StartInputs
  <2>2. <<Await("GPIO0", 1), Mode("GPIO0", GPIO_INT)>> \in Seq(StartSteps)
    <3>1. Await("GPIO0", 1) \in StartSteps /\ Mode("GPIO0", GPIO_INT) \in StartSteps
      BY DEF StartSteps
    <3>2. QED
      BY <3>1
  <2>3. \A s, t \in Seq(StartSteps) : s \o t \in Seq(StartSteps)
    BY ConcatProperties
  <2>4. QED
    BY <2>1, <2>2, <2>3, Zenon DEF ioInit
<1>3. uart_init \in Seq(StartSteps)
  <2>1. /\ Do("reset", 0) \in StartSteps /\ Do("intr", 1) \in StartSteps
        /\ Mode("GPIO12", GPIO_OUTPUT) \in StartSteps /\ Write("GPIO12", 1) \in StartSteps
        /\ Mode("GPIO4", GPIO_INPUT) \in StartSteps
    BY SomePins DEF StartSteps
  <2>2. QED
    BY <2>1 DEF uart_init
<1> DEFINE first == <<Do("timer", 0), Do("timer", 1)>>
           last == <<Do("ready", 0)>>
           all == (first \o ioInit) \o uart_init
<1>4. /\ first \in Seq(AllSteps) /\ Len(first) = 2 /\ last \in Seq(AllSteps) /\ Len(last) = 1
      /\ first[1] = Do("timer", 0) /\ first[2] = Do("timer", 1) /\ last[1] = Do("ready", 0)
  <2>1. Do("timer", 0) \in AllSteps /\ Do("timer", 1) \in AllSteps /\ Do("ready", 0) \in AllSteps
    BY StepKinds
  <2>2. QED
    BY <2>1
<1>5. ioInit \in Seq(AllSteps) /\ uart_init \in Seq(AllSteps)
  BY <1>1, <1>2, <1>3, SeqMonotonic
<1>6. user_init = all \o last
  BY DEF user_init, ioTimerInit
<1> HIDE DEF first, last
<1>7. /\ first \o ioInit \in Seq(AllSteps) /\ Len(ioInit) \in Nat
      /\ Len(first \o ioInit) = 2 + Len(ioInit)
      /\ \A i \in 1 .. 2 + Len(ioInit) :
            (first \o ioInit)[i] = IF i <= 2 THEN first[i] ELSE ioInit[i - 2]
  <2>1. first \in Seq(AllSteps) /\ ioInit \in Seq(AllSteps)
    BY <1>4, <1>5
  <2>2. /\ first \o ioInit \in Seq(AllSteps) /\ Len(ioInit) \in Nat
        /\ Len(first \o ioInit) = Len(first) + Len(ioInit)
        /\ \A i \in 1 .. Len(first) + Len(ioInit) :
              (first \o ioInit)[i] = IF i <= Len(first) THEN first[i] ELSE ioInit[i - Len(first)]
    BY <2>1, Joined, Zenon
  <2>3. QED
    BY <1>4, <2>2
<1> DEFINE head == first \o ioInit
<1> HIDE DEF head
<1>8. head = first \o ioInit /\ all = head \o uart_init
  BY DEF head
<1>9. /\ all \in Seq(AllSteps) /\ Len(uart_init) \in Nat
      /\ Len(all) = Len(head) + Len(uart_init)
      /\ \A i \in 1 .. Len(head) + Len(uart_init) :
            all[i] = IF i <= Len(head) THEN head[i] ELSE uart_init[i - Len(head)]
  BY <1>5, <1>7, <1>8, Joined
<1> HIDE DEF all
<1>10. /\ all \o last \in Seq(AllSteps) /\ Len(all \o last) = Len(all) + 1
       /\ \A i \in 1 .. Len(all) + 1 :
             (all \o last)[i] = IF i <= Len(all) THEN all[i] ELSE last[i - Len(all)]
  <2>1. all \in Seq(AllSteps) /\ last \in Seq(AllSteps)
    BY <1>4, <1>9
  <2>2. /\ all \o last \in Seq(AllSteps) /\ Len(all \o last) = Len(all) + Len(last)
        /\ \A i \in 1 .. Len(all) + Len(last) :
              (all \o last)[i] = IF i <= Len(all) THEN all[i] ELSE last[i - Len(all)]
    BY <2>1, Joined, Zenon
  <2>3. QED
    BY <1>4, <2>2
<1>11. ASSUME NEW i \in 3 .. Len(all) PROVE all[i] \in StartSteps
  <2>1. CASE i <= Len(head)
    <3>1. i - 2 \in 1 .. Len(ioInit) /\ all[i] = ioInit[i - 2]
      BY <1>7, <1>8, <1>9, <2>1
    <3>2. QED
      BY <1>2, <3>1, ElementOfSeq
  <2>2. CASE i > Len(head)
    <3>1. i - Len(head) \in 1 .. Len(uart_init) /\ all[i] = uart_init[i - Len(head)]
      BY <1>7, <1>8, <1>9, <2>2
    <3>2. QED
      BY <1>3, <3>1, ElementOfSeq
  <2>3. QED
    BY <1>7, <1>8, <1>9, <2>1, <2>2
<1>12. /\ Len(all) \in Nat /\ Len(all) >= 2 /\ all[1] = first[1] /\ all[2] = first[2]
  BY <1>7, <1>8, <1>9
<1>13. Len(all) + 1 - 1 = Len(all) /\ (Len(all) + 1) - Len(all) = 1
  BY <1>12
<1>14. (all \o last)[Len(all) + 1] = last[1]
  BY <1>10, <1>12, <1>13
<1>15. \A i \in 3 .. Len(all) : (all \o last)[i] \in StartSteps
  BY <1>10, <1>11, <1>12
<1>16. (all \o last)[1] = first[1] /\ (all \o last)[2] = first[2]
  BY <1>10, <1>12
<1>17. Len(user_init) = Len(all) + 1 /\ Len(user_init) - 1 = Len(all)
  BY <1>6, <1>10, <1>12
<1>18. QED
  BY <1>4, <1>6, <1>10, <1>12, <1>14, <1>15, <1>16, <1>17
-----------------------------------------------------------------------------
(******************************* The invariant ******************************)

\* The steps of the commands that use the ARM's pin, and of the other ones.
ArmSteps ==
    {Await("GPIO14", 0), Mode("GPIO14", GPIO_OUTPUT), Mode("GPIO14", GPIO_INPUT),
     Write("GPIO14", 0), Write("GPIO14", 1)}
PlainSteps ==
    {Write(p, l) : p \in CommandPins, l \in 0..1} \cup {<<"pulse", p, 0>> : p \in CommandPins}
        \cup {Await("GPIO14", 0), Do("intr", 0), Do("intr", 1), Do("sleep", 0)}

Released14 == ~pins["GPIO14"].drive

\* The handler the task is in, or none.
Starting ==
    /\ power = "boot" /\ todo # <<>> /\ Rest(todo, user_init)
    /\ timer = "disarmed" => Len(todo) >= Len(user_init) - 1
    /\ ~pins["GPIO4"].drive /\ Released14 /\ alarm = "none"
Alarming   == power # "boot" /\ todo # <<>> /\ Rest(todo, Alarm) /\ Released14
Arming     == power # "boot" /\ todo # <<>> /\ todo \in Seq(ArmSteps)
              /\ todo[Len(todo)] = Mode("GPIO14", GPIO_INPUT)
Commanding == power # "boot" /\ todo \in Seq(PlainSteps) /\ Released14

Handler == Starting \/ Alarming \/ Arming \/ Commanding

\* The timer is disarmed by the last step but one of the alarm only.
Watched == power = "on" /\ timer = "disarmed" => Alarming /\ Len(todo) = 1

\* The points of the alarm at which the line may be held, must not be held yet,
\* and at which the transmitter is on, or why it is not.
HeldByAlarm == HoldsLine /\ timer = "armed" => Alarming /\ Len(todo) \in 2..3
ArmedUntil  == Alarming /\ Len(todo) > 1 => timer = "armed"
BeforeRaise ==
    Alarming /\ Len(todo) = 4 => (TxEnabled <=> ~crossed) /\ (TxEnabled \/ rxfifo)
BeforeSend  == Alarming /\ Len(todo) = 3 => TxEnabled \/ rxfifo
Audible     == alarm = "queued" => TxEnabled \/ rxfifo

Line == /\ TxWhileHolding /\ MutedByReception
        /\ HeldByAlarm /\ ArmedUntil /\ BeforeRaise /\ BeforeSend /\ Audible

IInv == TypeOK /\ Handler /\ Watched /\ Line

-----------------------------------------------------------------------------
(*************************** What the steps do to pins **********************)

LEMMA ModeIs ==
    ASSUME NEW f \in [Pins -> Pin], NEW p \in Pins, NEW m
    PROVE  /\ set_gpio_mode(f, p, m) \in [Pins -> Pin]
           /\ \A q \in Pins : q # p => set_gpio_mode(f, p, m)[q] = f[q]
           /\ set_gpio_mode(f, p, m)[p].drive <=> m = GPIO_OUTPUT /\ (f[p].drive \/ p = "GPIO16")
           /\ set_gpio_mode(f, p, m)[p].out = f[p].out
BY DEF set_gpio_mode, Pin

LEMMA WriteIs ==
    ASSUME NEW f \in [Pins -> Pin], NEW p \in Pins, NEW l \in 0..1
    PROVE  /\ gpio_write(f, p, l) \in [Pins -> Pin]
           /\ \A q \in Pins : q # p => gpio_write(f, p, l)[q] = f[q]
           /\ gpio_write(f, p, l)[p] = [drive |-> TRUE, out |-> l]
BY DEF gpio_write, Pin

\* One lemma per kind of step.
LEMMA ModeStep ==
    ASSUME Step, NEW p, NEW m, Head(todo) = Mode(p, m), crossed \in BOOLEAN
    PROVE  /\ pins' = set_gpio_mode(pins, p, m) /\ todo' = Tail(todo)
           /\ UNCHANGED <<outside, power, softap, timer, intr, rxfifo, frmerr, alarm, crossed>>
BY DEF Step, PinStep, DeviceStep, Mode, Write

LEMMA WriteStep ==
    ASSUME Step, NEW p, NEW l, Head(todo) = Write(p, l), crossed \in BOOLEAN
    PROVE  /\ pins' = gpio_write(pins, p, l) /\ todo' = Tail(todo)
           /\ UNCHANGED <<outside, power, softap, timer, intr, rxfifo, frmerr, alarm>>
           /\ crossed' = (crossed /\ ~(p = "GPIO12" /\ l = 0))
BY DEF Step, PinStep, DeviceStep, Write

LEMMA AwaitStep ==
    ASSUME Step, NEW p, NEW l, Head(todo) = Await(p, l), crossed \in BOOLEAN
    PROVE  /\ pins' = pins /\ todo' = Tail(todo)
           /\ UNCHANGED <<outside, power, softap, timer, intr, rxfifo, frmerr, alarm, crossed>>
BY DEF Step, PinStep, DeviceStep, Await, Write

LEMMA PulseStep ==
    ASSUME Step, NEW p, Head(todo) = <<"pulse", p, 0>>, crossed \in BOOLEAN
    PROVE  /\ todo' = <<Write(p, gpio_pulse(pins, outside, p)[1]),
                        Write(p, gpio_pulse(pins, outside, p)[2])>> \o Tail(todo)
           /\ pins' = pins
           /\ UNCHANGED <<outside, power, softap, timer, intr, rxfifo, frmerr, alarm, crossed>>
<1>1. Step /\ Head(todo)[1] = "pulse" /\ Head(todo)[2] = p
  OBVIOUS
<1>2. Head(todo) # Write("GPIO12", 0)
  BY <1>1 DEF Write
<1>3. /\ todo' = <<Write(p, gpio_pulse(pins, outside, p)[1]),
                   Write(p, gpio_pulse(pins, outside, p)[2])>> \o Tail(todo)
      /\ pins' = pins /\ UNCHANGED <<outside, power, softap, timer, intr, rxfifo, frmerr, alarm>>
      /\ crossed' = (crossed /\ Head(todo) # Write("GPIO12", 0))
  BY <1>1 DEF Step, PinStep, DeviceStep
<1>4. QED
  BY <1>2, <1>3

LEMMA DoStep ==
    ASSUME Step, NEW op, NEW n, Head(todo) = Do(op, n),
           op \in {"timer", "intr", "reset", "send", "sleep", "ready"},
           rxfifo \in BOOLEAN, frmerr \in BOOLEAN
    PROVE  /\ todo' = Tail(todo) /\ UNCHANGED <<pins, outside, softap, crossed>>
           /\ op = "timer" => timer' = IF n = 1 THEN "armed" ELSE "disarmed"
           /\ op # "timer" => timer' = timer
           /\ intr' = IF op = "intr" THEN n = 1 ELSE intr
           /\ rxfifo' \in BOOLEAN /\ frmerr' \in BOOLEAN
           /\ op # "reset" => rxfifo' = rxfifo /\ frmerr' = frmerr
           /\ op = "send" => alarm' = "queued"
           /\ op # "send" => alarm' = alarm
           /\ op = "sleep" => power' = "sleeping"
           /\ op = "ready" => power' = "on"
           /\ op \notin {"sleep", "ready"} => power' = power
<1>1. /\ todo' = Tail(todo)
      /\ timer' = IF op # "timer" THEN timer ELSE IF n = 1 THEN "armed" ELSE "disarmed"
      /\ intr' = IF op = "intr" THEN n = 1 ELSE intr
      /\ rxfifo' = (rxfifo /\ op # "reset")
      /\ frmerr' = (frmerr /\ op # "reset")
      /\ alarm' = IF op = "send" THEN "queued" ELSE alarm
      /\ power' = CASE op = "sleep" -> "sleeping" [] op = "ready" -> "on"
                    [] OTHER -> power
      /\ UNCHANGED <<pins, outside, softap, crossed>>
  BY DEF Step, PinStep, DeviceStep, Do
<1>2. op = "sleep" => op # "ready"
  OBVIOUS
<1>3. QED
  BY <1>1, <1>2
-----------------------------------------------------------------------------
(******************************* The handlers *******************************)

\* A line that is not held, with an idle alarm, satisfies Line outside of the alarm.
LEMMA QuietLine ==
    ASSUME ~pins["GPIO4"].drive, alarm = "none", ~Alarming
    PROVE  Line
BY DEF Line, TxWhileHolding, MutedByReception, HeldByAlarm, ArmedUntil, BeforeRaise,
       BeforeSend, Audible, HoldsLine

\* The alarm has only its last step in common with the commands.
LEMMA AlarmApart ==
    ASSUME NEW s \in Seq(PlainSteps \cup ArmSteps), s # <<>>, Rest(s, Alarm)
    PROVE  Len(s) = 1
<1>1. Len(s) \in Nat \ {0} /\ \A i \in 1 .. Len(s) : s[i] \in PlainSteps \cup ArmSteps
  BY EmptySeq, ElementOfSeq
<1>2. SUFFICES ASSUME Len(s) # 1 PROVE FALSE
  OBVIOUS
<1>3. Len(s) - 1 \in 1 .. Len(s) /\ s[Len(s) - 1] = Alarm[5]
  <2>1. Len(s) - 1 \in 1 .. Len(s)
    BY <1>1, <1>2
  <2>2. s[Len(s) - 1] = Alarm[Len(Alarm) - Len(s) + (Len(s) - 1)]
    BY <2>1 DEF Rest
  <2>3. Len(Alarm) - Len(s) + (Len(s) - 1) = 5
    BY <1>1, AlarmSteps
  <2>4. QED
    BY <2>1, <2>2, <2>3
<1>4. Do("timer", 0) \notin PlainSteps \cup ArmSteps
  BY DEF Do, PlainSteps, ArmSteps, Mode, Write, Await
<1>5. QED
  BY <1>1, <1>3, <1>4, AlarmSteps

\* The step of a sequence of steps of one kind, and the last of what is left.
LEMMA HeadOf ==
    ASSUME NEW S, NEW s \in Seq(S), s # <<>>
    PROVE  /\ Head(s) \in S /\ Tail(s) \in Seq(S) /\ Len(s) \in Nat \ {0}
           /\ Len(s) = 1 => Tail(s) = <<>> /\ Head(s) = s[Len(s)]
           /\ Len(s) # 1 => Tail(s) # <<>> /\ Tail(s)[Len(Tail(s))] = s[Len(s)]
<1>1. /\ Head(s) \in S /\ Tail(s) \in Seq(S) /\ Len(Tail(s)) = Len(s) - 1
      /\ \A i \in 1 .. Len(Tail(s)) : Tail(s)[i] = s[i + 1]
  BY HeadTailProperties
<1>2. Len(s) \in Nat \ {0} /\ Head(s) = s[1]
  BY EmptySeq
<1>3. Tail(s) = <<>> <=> Len(Tail(s)) = 0
  <2>1. Tail(s) \in Seq(S)
    BY <1>1
  <2>2. QED
    BY <2>1, EmptyIs, Zenon
<1>4. Len(s) # 1 => Len(Tail(s)) \in 1 .. Len(Tail(s)) /\ Len(Tail(s)) + 1 = Len(s)
  BY <1>1, <1>2
<1>5. QED
  BY <1>1, <1>2, <1>3, <1>4

\* A step of the start.
LEMMA StartStep == ASSUME IInv, Starting, Step PROVE IInv'
<1> DEFINE k == Len(user_init) - Len(todo) + 1
<1>1. /\ todo \in Seq(AllSteps) /\ todo # <<>> /\ user_init \in Seq(AllSteps)
      /\ Rest(todo, user_init)
  BY StartIs DEF Starting, IInv, TypeOK, AllSteps
<1>2. /\ Tail(todo) \in Seq(AllSteps) /\ Rest(Tail(todo), user_init)
      /\ Len(Tail(todo)) = Len(todo) - 1
      /\ Head(todo) = user_init[k] /\ Len(todo) \in 1 .. Len(user_init)
      /\ Tail(todo) = <<>> <=> Len(todo) = 1
  BY <1>1, RestOfRest
<1>3. /\ power = "boot" /\ alarm = "none" /\ ~pins["GPIO4"].drive /\ ~pins["GPIO14"].drive
      /\ timer = "disarmed" => Len(todo) >= Len(user_init) - 1
  BY DEF Starting, Released14
<1>4. /\ pins \in [Pins -> Pin] /\ outside \in [Pins -> 0..1] /\ timer \in {"armed", "disarmed"}
      /\ softap \in BOOLEAN /\ intr \in BOOLEAN /\ rxfifo \in BOOLEAN /\ frmerr \in BOOLEAN
      /\ crossed \in BOOLEAN
     
  BY DEF IInv, TypeOK, Line
<1>5. /\ k \in 1 .. Len(user_init)
      /\ k = Len(user_init) <=> Len(todo) = 1
      /\ Len(user_init) \in Nat /\ Len(user_init) > 2
  BY <1>2, StartIs
\* All steps but the last.
<1>6. ASSUME /\ todo' = Tail(todo) /\ Len(todo) # 1 /\ power' = "boot" /\ alarm' = "none"
             /\ pins' \in [Pins -> Pin] /\ ~pins'["GPIO4"].drive /\ ~pins'["GPIO14"].drive
             /\ timer' \in {"armed", "disarmed"}
             /\ timer' = "disarmed" => Len(todo) - 1 >= Len(user_init) - 1
             /\ UNCHANGED <<outside, softap>>
             /\ intr' \in BOOLEAN /\ rxfifo' \in BOOLEAN /\ frmerr' \in BOOLEAN
             /\ crossed' \in BOOLEAN
      PROVE  IInv'
  <2>1. TypeOK'
    BY <1>2, <1>4, <1>6 DEF TypeOK, AllSteps
  <2>2. Starting'
    BY <1>2, <1>6 DEF Starting, Released14
  <2>3. Handler' /\ Watched' /\ ~Alarming'
    BY <1>6, <2>2 DEF Handler, Watched, Alarming
  <2>4. Line'
    BY <1>6, <2>3 DEF Line, TxWhileHolding, MutedByReception, HeldByAlarm, ArmedUntil,
       BeforeRaise, BeforeSend, Audible, HoldsLine
  <2>5. QED
    BY <2>1, <2>3, <2>4 DEF IInv
<1>7. CASE k = 1
  <2>1. Head(todo) = Do("timer", 0)
    BY <1>2, <1>7, StartIs
  <2>2. /\ todo' = Tail(todo) /\ timer' = "disarmed" /\ power' = power /\ alarm' = alarm
        /\ UNCHANGED <<pins, outside, softap>> /\ intr' = intr
        /\ rxfifo' \in BOOLEAN /\ frmerr' \in BOOLEAN /\ crossed' \in BOOLEAN
    BY <1>4, <2>1, DoStep
  <2>3. Len(todo) = Len(user_init)
    BY <1>2, <1>5, <1>7
  <2>4. QED
    BY <1>3, <1>4, <1>5, <1>6, <2>2, <2>3
<1>8. CASE k = 2
  <2>1. Head(todo) = Do("timer", 1)
    BY <1>2, <1>8, StartIs
  <2>2. /\ todo' = Tail(todo) /\ timer' = "armed" /\ power' = power /\ alarm' = alarm
        /\ UNCHANGED <<pins, outside, softap>> /\ intr' = intr
        /\ rxfifo' \in BOOLEAN /\ frmerr' \in BOOLEAN /\ crossed' \in BOOLEAN
    BY <1>4, <2>1, DoStep
  <2>3. Len(todo) # 1
    BY <1>5, <1>8
  <2>4. QED
    BY <1>3, <1>4, <1>6, <2>2, <2>3
<1>9. CASE k # 1 /\ k # 2
  <2>1. timer = "armed"
    BY <1>2, <1>3, <1>4, <1>5, <1>9
  <2>2. CASE Len(todo) = 1
    <3>1. Head(todo) = Do("ready", 0)
      BY <1>2, <1>5, <2>2, StartIs
    <3>2. /\ todo' = Tail(todo) /\ timer' = timer /\ power' = "on" /\ alarm' = alarm
          /\ UNCHANGED <<pins, outside, softap>> /\ intr' = intr
          /\ rxfifo' \in BOOLEAN /\ frmerr' \in BOOLEAN /\ crossed' \in BOOLEAN
      BY <1>4, <3>1, DoStep
    <3>3. todo' = <<>> /\ <<>> \in Seq(PlainSteps) /\ <<>> \in Seq(AllSteps)
      BY <1>2, <2>2, <3>2, EmptySeq
    <3>4. TypeOK'
      BY <1>3, <1>4, <3>2, <3>3 DEF TypeOK, AllSteps
    <3>5. Handler'
      BY <1>3, <3>2, <3>3 DEF Handler, Commanding, Released14
    <3>6. ~Alarming' /\ Watched'
      BY <2>1, <3>2, <3>3 DEF Alarming, Watched
    <3>7. Line'
      BY <1>3, <3>2, <3>6 DEF Line, TxWhileHolding, MutedByReception, HeldByAlarm,
         ArmedUntil, BeforeRaise, BeforeSend, Audible, HoldsLine
    <3>8. QED
      BY <3>4, <3>5, <3>6, <3>7 DEF IInv
  <2>3. CASE Len(todo) # 1
    <3>1. k \in 3 .. Len(user_init) - 1
      BY <1>5, <1>9, <2>3
    <3>2. Head(todo) \in StartSteps
      BY <1>2, <3>1, StartIs
    <3>3. \/ \E p \in Pins, m \in 0..2 :
                Head(todo) = Mode(p, m) /\ (m = GPIO_OUTPUT => p = "GPIO12")
          \/ Head(todo) = Write("GPIO12", 1)
          \/ Head(todo) = Await("GPIO0", 1)
          \/ Head(todo) = Do("reset", 0) \/ Head(todo) = Do("intr", 1)
      BY <3>2, SomePins DEF StartSteps, GPIO_INPUT, GPIO_OUTPUT, GPIO_INT
    <3>4. ASSUME NEW p \in Pins, NEW m \in 0..2, Head(todo) = Mode(p, m),
                 m = GPIO_OUTPUT => p = "GPIO12"
          PROVE  IInv'
      <4>1. /\ pins' = set_gpio_mode(pins, p, m) /\ todo' = Tail(todo)
            /\ UNCHANGED <<outside, power, softap, timer, intr, rxfifo, frmerr, alarm, crossed>>
        BY <1>4, <3>4, ModeStep
      <4>2. /\ pins' \in [Pins -> Pin] /\ ~pins'["GPIO4"].drive /\ ~pins'["GPIO14"].drive
        BY <1>3, <1>4, <3>4, <4>1, ModeIs, SomePins
      <4>3. QED
        BY <1>3, <1>4, <1>6, <2>1, <2>3, <4>1, <4>2
    <3>5. CASE Head(todo) = Write("GPIO12", 1)
      <4>1. /\ pins' = gpio_write(pins, "GPIO12", 1) /\ todo' = Tail(todo)
            /\ UNCHANGED <<outside, power, softap, timer, intr, rxfifo, frmerr, alarm, crossed>>
        BY <1>4, <3>5, WriteStep
      <4>2. /\ pins' \in [Pins -> Pin] /\ ~pins'["GPIO4"].drive /\ ~pins'["GPIO14"].drive
        <5>1. gpio_write(pins, "GPIO12", 1) \in [Pins -> Pin]
              /\ \A q \in Pins : q # "GPIO12" => gpio_write(pins, "GPIO12", 1)[q] = pins[q]
          BY <1>4, WriteIs, SomePins
        <5>2. QED
          BY <1>3, <4>1, <5>1, SomePins
      <4>3. QED
        BY <1>3, <1>4, <1>6, <2>1, <2>3, <4>1, <4>2
    <3>6. CASE Head(todo) = Await("GPIO0", 1)
      <4>1. /\ pins' = pins /\ todo' = Tail(todo)
            /\ UNCHANGED <<outside, power, softap, timer, intr, rxfifo, frmerr, alarm, crossed>>
        BY <1>4, <3>6, AwaitStep
      <4>2. QED
        BY <1>3, <1>4, <1>6, <2>1, <2>3, <4>1
    <3>7. CASE Head(todo) = Do("reset", 0) \/ Head(todo) = Do("intr", 1)
      <4>1. /\ todo' = Tail(todo) /\ timer' = timer /\ power' = power /\ alarm' = alarm
            /\ UNCHANGED <<pins, outside, softap>> /\ intr' \in BOOLEAN
            /\ rxfifo' \in BOOLEAN /\ frmerr' \in BOOLEAN /\ crossed' \in BOOLEAN
        <5>1. CASE Head(todo) = Do("reset", 0)
          BY <1>4, <5>1, DoStep
        <5>2. CASE Head(todo) = Do("intr", 1)
          BY <1>4, <5>2, DoStep
        <5>3. QED
          BY <3>7, <5>1, <5>2
      <4>2. QED
        BY <1>3, <1>4, <1>6, <2>1, <2>3, <4>1
    <3>8. QED
      BY <3>3, <3>4, <3>5, <3>6, <3>7
  <2>4. QED
    BY <2>2, <2>3
<1>10. QED
  BY <1>7, <1>8, <1>9
\* What the types say of the single variables.
LEMMA Types ==
    ASSUME IInv
    PROVE  /\ pins \in [Pins -> Pin] /\ outside \in [Pins -> 0..1] /\ todo \in Seq(AllSteps)
           /\ power \in {"boot", "on", "sleeping", "asleep"}
           /\ timer \in {"armed", "disarmed"} /\ alarm \in {"none", "queued", "sent", "muted"}
           /\ softap \in BOOLEAN /\ intr \in BOOLEAN /\ rxfifo \in BOOLEAN /\ frmerr \in BOOLEAN
      /\ crossed \in BOOLEAN
BY DEF IInv, TypeOK, AllSteps

\* A step of the alarm.
LEMMA AlarmStep == ASSUME IInv, Alarming, Step PROVE IInv'
<1>1. /\ pins \in [Pins -> Pin] /\ outside \in [Pins -> 0..1] /\ todo \in Seq(AllSteps)
      /\ power \in {"boot", "on", "sleeping", "asleep"}
      /\ timer \in {"armed", "disarmed"} /\ alarm \in {"none", "queued", "sent", "muted"}
      /\ softap \in BOOLEAN /\ intr \in BOOLEAN /\ rxfifo \in BOOLEAN /\ frmerr \in BOOLEAN
      /\ crossed \in BOOLEAN
  BY Types
<1>2. /\ power # "boot" /\ todo # <<>> /\ Rest(todo, Alarm) /\ ~pins["GPIO14"].drive
  BY DEF Alarming, Released14
<1>3. /\ Tail(todo) \in Seq(AllSteps) /\ Rest(Tail(todo), Alarm)
      /\ Len(Tail(todo)) = Len(todo) - 1
      /\ Head(todo) = Alarm[6 - Len(todo) + 1] /\ Len(todo) \in 1 .. 6
      /\ Tail(todo) = <<>> <=> Len(todo) = 1
  <2>1. Alarm \in Seq(AllSteps) /\ Len(Alarm) = 6
    BY AlarmSteps
  <2>2. /\ Tail(todo) \in Seq(AllSteps) /\ Rest(Tail(todo), Alarm)
        /\ Len(Tail(todo)) = Len(todo) - 1
        /\ Head(todo) = Alarm[Len(Alarm) - Len(todo) + 1] /\ Len(todo) \in 1 .. Len(Alarm)
        /\ Tail(todo) = <<>> <=> Len(todo) = 1
    BY <1>1, <1>2, <2>1, RestOfRest, Zenon
  <2>3. QED
    BY <2>1, <2>2
<1>4. /\ TxWhileHolding /\ MutedByReception /\ Watched
      /\ HoldsLine /\ timer = "armed" => Len(todo) \in 2..3
      /\ Len(todo) > 1 => timer = "armed"
      /\ Len(todo) = 4 => (TxEnabled <=> ~crossed) /\ (TxEnabled \/ rxfifo)
      /\ Len(todo) = 3 => TxEnabled \/ rxfifo
      /\ Audible
  BY DEF IInv, Line, HeldByAlarm, ArmedUntil, BeforeRaise, BeforeSend
\* All steps but the last.
<1>5. ASSUME /\ todo' = Tail(todo) /\ Len(todo) # 1 /\ UNCHANGED <<power, outside, softap>>
             /\ pins' \in [Pins -> Pin] /\ ~pins'["GPIO14"].drive
             /\ timer' \in {"armed", "disarmed"} /\ alarm' \in {"none", "queued", "sent", "muted"}
             /\ intr' \in BOOLEAN /\ rxfifo' \in BOOLEAN /\ frmerr' \in BOOLEAN
             /\ crossed' \in BOOLEAN
             /\ timer' = "disarmed" => Len(todo) = 2
             /\ TxWhileHolding' /\ MutedByReception' /\ Audible'
             /\ HoldsLine' /\ timer' = "armed" => Len(todo) \in 3..4
             /\ Len(todo) = 5 => (TxEnabled' <=> ~crossed') /\ (TxEnabled' \/ rxfifo')
             /\ Len(todo) = 4 => TxEnabled' \/ rxfifo'
      PROVE  IInv'
  <2>1. TypeOK'
    BY <1>1, <1>3, <1>5 DEF TypeOK, AllSteps
  <2>2. Alarming' /\ Len(todo') = Len(todo) - 1
    BY <1>2, <1>3, <1>5 DEF Alarming, Released14
  <2>3. Handler' /\ Watched'
    BY <1>3, <1>5, <2>2 DEF Handler, Watched
  <2>4. HeldByAlarm' /\ ArmedUntil' /\ BeforeRaise' /\ BeforeSend'
    BY <1>3, <1>5, <2>2 DEF HeldByAlarm, ArmedUntil, BeforeRaise, BeforeSend
  <2>5. QED
    BY <1>5, <2>1, <2>3, <2>4 DEF IInv, Line
<1>6. /\ HoldsLine <=> pins["GPIO4"] = [drive |-> TRUE, out |-> 1]
      /\ HoldsLine' <=> pins'["GPIO4"] = [drive |-> TRUE, out |-> 1]
      /\ TxEnabled <=> pins["GPIO12"] = [drive |-> TRUE, out |-> 0]
      /\ TxEnabled' <=> pins'["GPIO12"] = [drive |-> TRUE, out |-> 0]
  BY DEF HoldsLine, TxEnabled
<1>7. CASE Len(todo) = 6
  <2>1. Head(todo) = Mode("GPIO4", GPIO_OUTPUT)
    BY <1>3, <1>7, AlarmSteps
  <2>2. /\ pins' = set_gpio_mode(pins, "GPIO4", GPIO_OUTPUT) /\ todo' = Tail(todo)
        /\ UNCHANGED <<outside, power, softap, timer, intr, rxfifo, frmerr, alarm, crossed>>
    BY <1>1, <2>1, ModeStep
  <2>3. /\ set_gpio_mode(pins, "GPIO4", GPIO_OUTPUT) \in [Pins -> Pin]
        /\ \A q \in Pins : q # "GPIO4" =>
              set_gpio_mode(pins, "GPIO4", GPIO_OUTPUT)[q] = pins[q]
        /\ set_gpio_mode(pins, "GPIO4", GPIO_OUTPUT)["GPIO4"].drive => pins["GPIO4"].drive
        /\ set_gpio_mode(pins, "GPIO4", GPIO_OUTPUT)["GPIO4"].out = pins["GPIO4"].out
    BY <1>1, ModeIs, SomePins
  <2>4. /\ pins' \in [Pins -> Pin] /\ pins'["GPIO14"] = pins["GPIO14"]
        /\ pins'["GPIO12"] = pins["GPIO12"]
        /\ pins'["GPIO4"].drive => pins["GPIO4"].drive
        /\ pins'["GPIO4"].out = pins["GPIO4"].out
    BY <2>2, <2>3, SomePins
  <2>5. ~HoldsLine
    BY <1>4, <1>7
  <2>6. ~HoldsLine' /\ (TxEnabled' <=> TxEnabled)
    <3>1. /\ \A c \in Pin : c = [drive |-> TRUE, out |-> 1] <=> c.drive /\ c.out = 1
          /\ pins["GPIO4"] \in Pin /\ pins'["GPIO4"] \in Pin
      BY <1>1, <2>4, SomePins DEF Pin
    <3>2. pins'["GPIO4"] = [drive |-> TRUE, out |-> 1] =>
             pins["GPIO4"] = [drive |-> TRUE, out |-> 1]
      BY <2>4, <3>1
    <3>3. QED
      BY <1>6, <2>4, <2>5, <3>2
  <2>7. QED
    BY <1>1, <1>2, <1>4, <1>5, <1>7, <2>2, <2>4, <2>6
       DEF TxWhileHolding, MutedByReception, Audible
<1>8. CASE Len(todo) = 5
  <2>1. Head(todo) = Write("GPIO12", 0)
    BY <1>3, <1>8, AlarmSteps
  <2>2. /\ pins' = gpio_write(pins, "GPIO12", 0) /\ todo' = Tail(todo) /\ crossed' = FALSE
        /\ UNCHANGED <<outside, power, softap, timer, intr, rxfifo, frmerr, alarm>>
    BY <1>1, <2>1, WriteStep
  <2>3. /\ gpio_write(pins, "GPIO12", 0) \in [Pins -> Pin]
        /\ \A q \in Pins : q # "GPIO12" => gpio_write(pins, "GPIO12", 0)[q] = pins[q]
        /\ gpio_write(pins, "GPIO12", 0)["GPIO12"] = [drive |-> TRUE, out |-> 0]
    BY <1>1, WriteIs, SomePins
  <2>4. /\ pins' \in [Pins -> Pin] /\ pins'["GPIO14"] = pins["GPIO14"]
        /\ pins'["GPIO4"] = pins["GPIO4"] /\ TxEnabled'
    BY <1>6, <2>2, <2>3, SomePins
  <2>5. ~HoldsLine' /\ (HoldsLine' <=> HoldsLine)
    BY <1>4, <1>6, <1>8, <2>4
  <2>6. crossed' \in BOOLEAN /\ (TxEnabled' <=> ~crossed')
    BY <2>2, <2>4
  <2>7. TxWhileHolding' /\ MutedByReception' /\ Audible'
    BY <1>4, <2>2, <2>4, <2>5 DEF TxWhileHolding, MutedByReception, Audible
  <2>8. QED
    BY <1>1, <1>2, <1>4, <1>5, <1>8, <2>2, <2>4, <2>5, <2>6, <2>7
<1>9. CASE Len(todo) = 4
  <2>1. Head(todo) = Write("GPIO4", 1)
    BY <1>3, <1>9, AlarmSteps
  <2>2. /\ pins' = gpio_write(pins, "GPIO4", 1) /\ todo' = Tail(todo)
        /\ UNCHANGED <<outside, power, softap, timer, intr, rxfifo, frmerr, alarm, crossed>>
    BY <1>1, <2>1, WriteStep
  <2>3. /\ gpio_write(pins, "GPIO4", 1) \in [Pins -> Pin]
        /\ \A q \in Pins : q # "GPIO4" => gpio_write(pins, "GPIO4", 1)[q] = pins[q]
    BY <1>1, WriteIs, SomePins
  <2>4. /\ pins' \in [Pins -> Pin] /\ pins'["GPIO14"] = pins["GPIO14"]
        /\ pins'["GPIO12"] = pins["GPIO12"] /\ (TxEnabled' <=> TxEnabled)
    BY <1>6, <2>2, <2>3, SomePins
  <2>5. QED
    BY <1>1, <1>2, <1>4, <1>5, <1>9, <2>2, <2>4
       DEF TxWhileHolding, MutedByReception, Audible
<1>10. CASE Len(todo) = 3
  <2>1. Head(todo) = Do("send", 0)
    BY <1>3, <1>10, AlarmSteps
  <2>2. /\ todo' = Tail(todo) /\ timer' = timer /\ power' = power /\ alarm' = "queued"
        /\ UNCHANGED <<pins, outside, softap>> /\ intr' = intr
        /\ rxfifo' = rxfifo /\ frmerr' = frmerr /\ crossed' = crossed
    BY <1>1, <2>1, DoStep
  <2>3. (TxEnabled' <=> TxEnabled) /\ (HoldsLine' <=> HoldsLine)
    BY <1>6, <2>2
  <2>4. QED
    BY <1>1, <1>2, <1>4, <1>5, <1>10, <2>2, <2>3
       DEF TxWhileHolding, MutedByReception, Audible
<1>11. CASE Len(todo) = 2
  <2>1. Head(todo) = Do("timer", 0)
    BY <1>3, <1>11, AlarmSteps
  <2>2. /\ todo' = Tail(todo) /\ timer' = "disarmed" /\ power' = power /\ alarm' = alarm
        /\ UNCHANGED <<pins, outside, softap>> /\ intr' = intr
        /\ rxfifo' = rxfifo /\ frmerr' = frmerr /\ crossed' = crossed
    BY <1>1, <2>1, DoStep
  <2>3. (TxEnabled' <=> TxEnabled) /\ (HoldsLine' <=> HoldsLine)
    BY <1>6, <2>2
  <2>4. QED
    BY <1>1, <1>2, <1>4, <1>5, <1>11, <2>2, <2>3
       DEF TxWhileHolding, MutedByReception, Audible
<1>12. CASE Len(todo) = 1
  <2>1. Head(todo) = Do("sleep", 0)
    BY <1>3, <1>12, AlarmSteps
  <2>2. /\ todo' = Tail(todo) /\ timer' = timer /\ power' = "sleeping" /\ alarm' = alarm
        /\ UNCHANGED <<pins, outside, softap>> /\ intr' = intr
        /\ rxfifo' = rxfifo /\ frmerr' = frmerr /\ crossed' = crossed
    BY <1>1, <2>1, DoStep
  <2>3. todo' = <<>> /\ <<>> \in Seq(PlainSteps) /\ <<>> \in Seq(AllSteps)
    BY <1>3, <1>12, <2>2, EmptySeq
  <2>4. TypeOK'
    BY <1>1, <2>2, <2>3 DEF TypeOK, AllSteps
  <2>5. Handler' /\ Watched' /\ ~Alarming'
    BY <1>2, <2>2, <2>3 DEF Handler, Commanding, Released14, Watched, Alarming
  <2>6. (TxEnabled' <=> TxEnabled) /\ (HoldsLine' <=> HoldsLine)
    BY <1>6, <2>2
  <2>7. Line'
    BY <1>4, <1>12, <2>2, <2>5, <2>6 DEF Line, TxWhileHolding, MutedByReception, HeldByAlarm,
       ArmedUntil, BeforeRaise, BeforeSend, Audible
  <2>8. QED
    BY <2>4, <2>5, <2>7 DEF IInv
<1>13. \/ Len(todo) = 1 \/ Len(todo) = 2 \/ Len(todo) = 3
       \/ Len(todo) = 4 \/ Len(todo) = 5 \/ Len(todo) = 6
  <2>1. Len(todo) \in 1..6
    BY <1>3
  <2>2. QED
    BY <2>1
<1>14. QED
  BY <1>7, <1>8, <1>9, <1>10, <1>11, <1>12, <1>13
\* What happens outside of the alarm and leaves the line alone keeps Line.
Apart == Alarming => Len(todo) = 1

LEMMA CommandApart ==
    ASSUME NEW s \in Seq(PlainSteps) \cup Seq(ArmSteps), s # <<>>, Rest(s, Alarm)
    PROVE  Len(s) = 1
<1>1. s \in Seq(PlainSteps \cup ArmSteps)
  BY SeqMonotonic
<1>2. QED
  BY <1>1, AlarmApart

LEMMA CommandIsApart ==
    /\ Arming \/ Commanding => Apart
    /\ Arming' \/ Commanding' => Apart'
BY CommandApart DEF Arming, Commanding, Apart, Alarming

LEMMA LineKept ==
    ASSUME Line, Apart, Apart', pins'["GPIO4"] = pins["GPIO4"], pins'["GPIO12"] = pins["GPIO12"],
           UNCHANGED <<timer, alarm, rxfifo, crossed>>
    PROVE  Line'
<1>1. (TxEnabled' <=> TxEnabled) /\ (HoldsLine' <=> HoldsLine)
  BY DEF TxEnabled, HoldsLine
<1>2. HeldByAlarm' /\ ArmedUntil' /\ BeforeRaise' /\ BeforeSend'
  <2>1. ~(HoldsLine /\ timer = "armed")
    BY DEF Line, Apart, HeldByAlarm
  <2>2. HeldByAlarm'
    BY <1>1, <2>1 DEF HeldByAlarm
  <2>3. ASSUME Alarming' PROVE Len(todo)' = 1
    BY <2>3, Zenon DEF Apart
  <2>4. \A n : n = 1 => ~(n > 1) /\ n # 4 /\ n # 3
    OBVIOUS
  <2>5. ArmedUntil' /\ BeforeRaise' /\ BeforeSend'
    BY <2>3, <2>4, Zenon DEF ArmedUntil, BeforeRaise, BeforeSend
  <2>6. QED
    BY <2>2, <2>5
<1>3. TxWhileHolding' /\ MutedByReception' /\ Audible'
  BY <1>1 DEF Line, TxWhileHolding, MutedByReception, Audible
<1>4. QED
  BY <1>2, <1>3 DEF Line

LEMMA KindsOfSteps ==
    /\ ArmSteps \subseteq AllSteps /\ PlainSteps \subseteq AllSteps
    /\ \A s \in Seq(ArmSteps) \cup Seq(PlainSteps) : s \in Seq(AllSteps)
<1>1. ArmSteps \subseteq AllSteps
  BY StepKinds, SomePins DEF ArmSteps, GPIO_OUTPUT, GPIO_INPUT
<1>2. PlainSteps \subseteq AllSteps
  BY StepKinds, SomePins DEF PlainSteps
<1>3. ASSUME NEW s \in Seq(ArmSteps) PROVE s \in Seq(AllSteps)
  BY <1>1, <1>3, SeqMonotonic, Zenon
<1>4. ASSUME NEW s \in Seq(PlainSteps) PROVE s \in Seq(AllSteps)
  BY <1>2, <1>4, SeqMonotonic, Zenon
<1>5. QED
  BY <1>1, <1>2, <1>3, <1>4, Zenon

\* A step of a command that uses the ARM's pin.
LEMMA ArmStep == ASSUME IInv, Arming, Step PROVE IInv'
<1>1. /\ pins \in [Pins -> Pin] /\ outside \in [Pins -> 0..1] /\ todo \in Seq(AllSteps)
      /\ power \in {"boot", "on", "sleeping", "asleep"}
      /\ timer \in {"armed", "disarmed"} /\ alarm \in {"none", "queued", "sent", "muted"}
      /\ softap \in BOOLEAN /\ intr \in BOOLEAN /\ rxfifo \in BOOLEAN /\ frmerr \in BOOLEAN
      /\ crossed \in BOOLEAN
  BY Types
<1>2. /\ power # "boot" /\ todo # <<>> /\ todo \in Seq(ArmSteps)
      /\ todo[Len(todo)] = Mode("GPIO14", GPIO_INPUT)
  BY DEF Arming
<1>3. /\ Head(todo) \in ArmSteps /\ Tail(todo) \in Seq(ArmSteps)
      /\ Len(todo) = 1 => Tail(todo) = <<>> /\ Head(todo) = Mode("GPIO14", GPIO_INPUT)
      /\ Len(todo) # 1 => Tail(todo) # <<>>
                          /\ Tail(todo)[Len(Tail(todo))] = Mode("GPIO14", GPIO_INPUT)
  BY <1>2, HeadOf
<1> DEFINE Effect ==
             /\ todo' = Tail(todo) /\ pins' \in [Pins -> Pin]
             /\ pins'["GPIO4"] = pins["GPIO4"] /\ pins'["GPIO12"] = pins["GPIO12"]
             /\ UNCHANGED <<outside, power, softap, timer, intr, rxfifo, frmerr, alarm, crossed>>
             /\ Head(todo) = Mode("GPIO14", GPIO_INPUT) => ~pins'["GPIO14"].drive
<1>4. Effect
  <2>1. ASSUME NEW m \in {GPIO_INPUT, GPIO_OUTPUT}, Head(todo) = Mode("GPIO14", m) PROVE Effect
    <3>1. /\ pins' = set_gpio_mode(pins, "GPIO14", m) /\ todo' = Tail(todo)
          /\ UNCHANGED <<outside, power, softap, timer, intr, rxfifo, frmerr, alarm, crossed>>
      BY <1>1, <2>1, ModeStep
    <3>2. /\ set_gpio_mode(pins, "GPIO14", m) \in [Pins -> Pin]
          /\ \A q \in Pins : q # "GPIO14" => set_gpio_mode(pins, "GPIO14", m)[q] = pins[q]
          /\ set_gpio_mode(pins, "GPIO14", m)["GPIO14"].drive => m = GPIO_OUTPUT
      BY <1>1, ModeIs, SomePins
    <3>3. Head(todo) = Mode("GPIO14", GPIO_INPUT) => m # GPIO_OUTPUT
      BY <2>1 DEF Mode, GPIO_INPUT, GPIO_OUTPUT
    <3>4. QED
      BY <3>1, <3>2, <3>3, SomePins
  <2>2. ASSUME NEW l \in 0..1, Head(todo) = Write("GPIO14", l) PROVE Effect
    <3>1. /\ pins' = gpio_write(pins, "GPIO14", l) /\ todo' = Tail(todo)
          /\ UNCHANGED <<outside, power, softap, timer, intr, rxfifo, frmerr, alarm, crossed>>
      BY <1>1, <2>2, WriteStep
    <3>2. /\ gpio_write(pins, "GPIO14", l) \in [Pins -> Pin]
          /\ \A q \in Pins : q # "GPIO14" => gpio_write(pins, "GPIO14", l)[q] = pins[q]
      BY <1>1, WriteIs, SomePins
    <3>3. Head(todo) # Mode("GPIO14", GPIO_INPUT)
      BY <2>2 DEF Mode, Write
    <3>4. QED
      BY <3>1, <3>2, <3>3, SomePins
  <2>3. CASE Head(todo) = Await("GPIO14", 0)
    <3>1. /\ pins' = pins /\ todo' = Tail(todo)
          /\ UNCHANGED <<outside, power, softap, timer, intr, rxfifo, frmerr, alarm, crossed>>
      BY <1>1, <2>3, AwaitStep
    <3>2. Head(todo) # Mode("GPIO14", GPIO_INPUT)
      BY <2>3 DEF Mode, Await
    <3>3. QED
      BY <1>1, <3>1, <3>2
  <2>4. QED
    BY <1>3, <2>1, <2>2, <2>3 DEF ArmSteps
<1>5. TypeOK'
  BY <1>1, <1>3, <1>4, KindsOfSteps DEF TypeOK, AllSteps
<1>6. Arming' \/ Commanding'
  <2>1. CASE Len(todo) = 1
    <3>1. todo' = <<>> /\ <<>> \in Seq(PlainSteps) /\ ~pins'["GPIO14"].drive
      BY <1>3, <1>4, <2>1, EmptySeq
    <3>2. QED
      BY <1>2, <1>4, <3>1 DEF Commanding, Released14
  <2>2. CASE Len(todo) # 1
    BY <1>2, <1>3, <1>4, <2>2 DEF Arming
  <2>3. QED
    BY <2>1, <2>2
<1>7. Apart /\ Apart'
  BY <1>6, CommandIsApart
<1>8. Line'
  BY <1>4, <1>7, LineKept DEF IInv
<1>9. ~Alarming
  <2>1. SUFFICES ASSUME Alarming PROVE FALSE
    OBVIOUS
  <2>2. Len(todo) = 1 /\ Len(Alarm) = 6 /\ Alarm[6] = Do("sleep", 0)
    BY <1>7, <2>1, AlarmSteps DEF Apart
  <2>3. todo[1] = Alarm[6 - 1 + 1]
    BY <2>1, <2>2 DEF Alarming, Rest
  <2>4. QED
    BY <1>2, <2>2, <2>3 DEF Do, Mode
<1>10. Watched'
  BY <1>4, <1>9 DEF IInv, Watched
<1>11. QED
  BY <1>5, <1>6, <1>8, <1>10 DEF IInv, Handler
\* A step of any other command.
LEMMA PlainStep == ASSUME IInv, Commanding, todo # <<>>, Step PROVE IInv'
<1>1. /\ pins \in [Pins -> Pin] /\ outside \in [Pins -> 0..1] /\ todo \in Seq(AllSteps)
      /\ power \in {"boot", "on", "sleeping", "asleep"}
      /\ timer \in {"armed", "disarmed"} /\ alarm \in {"none", "queued", "sent", "muted"}
      /\ softap \in BOOLEAN /\ intr \in BOOLEAN /\ rxfifo \in BOOLEAN /\ frmerr \in BOOLEAN
      /\ crossed \in BOOLEAN
  BY Types
<1>2. power # "boot" /\ todo \in Seq(PlainSteps) /\ ~pins["GPIO14"].drive
  BY DEF Commanding, Released14
<1>3. Head(todo) \in PlainSteps /\ Tail(todo) \in Seq(PlainSteps)
  BY <1>2, HeadOf
<1> DEFINE Effect ==
             /\ todo' \in Seq(PlainSteps) /\ pins' \in [Pins -> Pin]
             /\ pins'["GPIO4"] = pins["GPIO4"] /\ pins'["GPIO12"] = pins["GPIO12"]
             /\ pins'["GPIO14"] = pins["GPIO14"]
             /\ UNCHANGED <<outside, softap, timer, rxfifo, frmerr, alarm, crossed>>
             /\ intr' \in BOOLEAN
             /\ power' = IF Head(todo) = Do("sleep", 0) THEN "sleeping" ELSE power
<1>4. Effect
  <2>1. ASSUME NEW p \in CommandPins, NEW l \in 0..1, Head(todo) = Write(p, l) PROVE Effect
    <3>1. /\ pins' = gpio_write(pins, p, l) /\ todo' = Tail(todo)
          /\ UNCHANGED <<outside, power, softap, timer, intr, rxfifo, frmerr, alarm, crossed>>
      BY <1>1, <2>1, WriteStep, SomePins
    <3>2. /\ gpio_write(pins, p, l) \in [Pins -> Pin]
          /\ \A q \in Pins : q # p => gpio_write(pins, p, l)[q] = pins[q]
      BY <1>1, <2>1, WriteIs, SomePins
    <3>3. Head(todo) # Do("sleep", 0)
      BY <2>1 DEF Do, Write
    <3>4. QED
      BY <1>1, <1>3, <2>1, <3>1, <3>2, <3>3, SomePins
  <2>2. ASSUME NEW p \in CommandPins, Head(todo) = <<"pulse", p, 0>> PROVE Effect
    <3> DEFINE a == gpio_pulse(pins, outside, p)[1]
               b == gpio_pulse(pins, outside, p)[2]
    <3>1. /\ todo' = <<Write(p, a), Write(p, b)>> \o Tail(todo) /\ pins' = pins
          /\ UNCHANGED <<outside, power, softap, timer, intr, rxfifo, frmerr, alarm, crossed>>
      BY <1>1, <2>2, PulseStep
    <3>2. a \in 0..1 /\ b \in 0..1
      <4>1. gpio_read(pins, outside, p) \in 0..1
        BY <1>1, <2>2, SomePins DEF gpio_read, Pin
      <4>2. QED
        BY <4>1 DEF gpio_pulse
    <3> HIDE DEF a, b
    <3>3. Write(p, a) \in PlainSteps /\ Write(p, b) \in PlainSteps
      BY <2>2, <3>2 DEF PlainSteps
    <3>4. <<Write(p, a), Write(p, b)>> \in Seq(PlainSteps)
      BY <3>3
    <3>5. todo' \in Seq(PlainSteps)
      BY <1>3, <3>1, <3>4, Joined, Zenon
    <3>6. Head(todo) # Do("sleep", 0)
      BY <2>2 DEF Do
    <3>7. QED
      BY <1>1, <3>1, <3>5, <3>6
  <2>3. CASE Head(todo) = Await("GPIO14", 0)
    <3>1. /\ pins' = pins /\ todo' = Tail(todo)
          /\ UNCHANGED <<outside, power, softap, timer, intr, rxfifo, frmerr, alarm, crossed>>
      BY <1>1, <2>3, AwaitStep
    <3>2. Head(todo) # Do("sleep", 0)
      BY <2>3 DEF Do, Await
    <3>3. QED
      BY <1>1, <1>3, <3>1, <3>2
  <2>4. ASSUME NEW n \in 0..1, Head(todo) = Do("intr", n) PROVE Effect
    <3>1. /\ todo' = Tail(todo) /\ UNCHANGED <<pins, outside, softap>>
          /\ timer' = timer /\ intr' \in BOOLEAN /\ rxfifo' = rxfifo /\ frmerr' = frmerr /\ crossed' = crossed
          /\ alarm' = alarm /\ power' = power
      BY <1>1, <2>4, DoStep
    <3>2. Head(todo) # Do("sleep", 0)
      BY <2>4 DEF Do
    <3>3. QED
      BY <1>1, <1>3, <3>1, <3>2
  <2>5. CASE Head(todo) = Do("sleep", 0)
    <3>1. /\ todo' = Tail(todo) /\ UNCHANGED <<pins, outside, softap>>
          /\ timer' = timer /\ intr' = intr /\ rxfifo' = rxfifo /\ frmerr' = frmerr /\ crossed' = crossed
          /\ alarm' = alarm /\ power' = "sleeping"
      BY <1>1, <2>5, DoStep
    <3>2. QED
      BY <1>1, <1>3, <2>5, <3>1
  <2>6. QED
    BY <1>3, <2>1, <2>2, <2>3, <2>4, <2>5 DEF PlainSteps
<1>5. TypeOK'
  BY <1>1, <1>4, KindsOfSteps DEF TypeOK, AllSteps
<1>6. Commanding'
  BY <1>2, <1>4 DEF Commanding, Released14
<1>7. Apart /\ Apart'
  BY <1>6, CommandIsApart
<1>8. Line'
  BY <1>4, <1>7, LineKept DEF IInv
<1>9. Alarming => Head(todo) = Do("sleep", 0)
  <2>1. SUFFICES ASSUME Alarming PROVE Head(todo) = Do("sleep", 0)
    OBVIOUS
  <2>2. Len(todo) = 1 /\ Len(Alarm) = 6 /\ Alarm[6] = Do("sleep", 0)
    BY <1>7, <2>1, AlarmSteps DEF Apart
  <2>3. todo[1] = Alarm[6 - 1 + 1]
    BY <2>1, <2>2 DEF Alarming, Rest
  <2>4. Head(todo) = todo[Len(todo)]
    BY <1>2, <2>2, HeadOf
  <2>5. QED
    BY <2>2, <2>3, <2>4
<1>10. Watched'
  BY <1>4, <1>9 DEF IInv, Watched
<1>11. QED
  BY <1>5, <1>6, <1>8, <1>10 DEF IInv, Handler

\* Whatever handler the task is in, its next step keeps the invariant.
LEMMA TaskStep == ASSUME IInv, Step PROVE IInv'
BY StartStep, AlarmStep, ArmStep, PlainStep DEF IInv, Handler, Step
-----------------------------------------------------------------------------
(******************** The start, the timer and the commands *****************)

LEMMA InitIInv == Init => IInv
<1> SUFFICES ASSUME Init PROVE IInv
  OBVIOUS
<1>1. /\ pins = AllInputs /\ outside \in [Pins -> 0..1] /\ todo = user_init /\ power = "boot"
      /\ softap = TRUE /\ timer = "disarmed" /\ intr = FALSE /\ rxfifo = FALSE
      /\ frmerr = FALSE /\ alarm = "none" /\ crossed = FALSE
  BY DEF Init
<1>2. /\ pins \in [Pins -> Pin] /\ ~pins["GPIO4"].drive /\ ~pins["GPIO14"].drive
  BY <1>1, SomePins DEF AllInputs, Pin
<1>3. /\ user_init \in Seq(AllSteps) /\ Len(user_init) \in Nat /\ user_init # <<>>
      /\ Rest(user_init, user_init)
  BY StartIs, RestOfItself, EmptySeq
<1>4. TypeOK
  BY <1>1, <1>2, <1>3 DEF TypeOK, AllSteps
<1>5. Starting
  BY <1>1, <1>2, <1>3 DEF Starting, Released14
<1>6. ~Alarming /\ Watched /\ Handler
  BY <1>1, <1>5 DEF Alarming, Watched, Handler
<1>7. Line
  BY <1>1, <1>2, <1>6, QuietLine
<1>8. QED
  BY <1>4, <1>6, <1>7 DEF IInv

LEMMA RestartKeeps == ASSUME IInv, Restart PROVE IInv'
<1>1. /\ pins' = AllInputs /\ outside' = outside /\ todo' = user_init /\ power' = "boot"
      /\ softap' = TRUE /\ timer' = "disarmed" /\ intr' = FALSE /\ rxfifo' = FALSE
      /\ frmerr' = FALSE /\ alarm' = "none" /\ crossed' = FALSE
  BY DEF Restart
<1>2. /\ pins' \in [Pins -> Pin] /\ ~pins'["GPIO4"].drive /\ ~pins'["GPIO14"].drive
  BY <1>1, SomePins DEF AllInputs, Pin
<1>3. /\ user_init \in Seq(AllSteps) /\ Len(user_init) \in Nat /\ user_init # <<>>
      /\ Rest(user_init, user_init)
  BY StartIs, RestOfItself, EmptySeq
<1>4. TypeOK'
  BY <1>1, <1>2, <1>3, Types DEF TypeOK, AllSteps
<1>5. Starting'
  BY <1>1, <1>2, <1>3 DEF Starting, Released14
<1>6. ~Alarming' /\ Watched' /\ Handler'
  BY <1>1, <1>5 DEF Alarming, Watched, Handler
<1>7. Line'
  BY <1>1, <1>2, <1>6 DEF Line, TxWhileHolding, MutedByReception, HeldByAlarm, ArmedUntil,
     BeforeRaise, BeforeSend, Audible, HoldsLine
<1>8. QED
  BY <1>4, <1>6, <1>7 DEF IInv

\* With no handler under way the task is past the start.
LEMMA IdleIs == ASSUME Handler, todo = <<>> PROVE Commanding /\ ~Alarming
BY DEF Handler, Starting, Alarming, Arming

LEMMA PulseTimerKeeps == ASSUME IInv, PulseTimer PROVE IInv'
<1>1. /\ power \in {"on", "sleeping"} /\ todo = <<>> /\ timer = "armed"
      /\ todo' = IF ContactClosed THEN Alarm ELSE <<>>
      /\ UNCHANGED <<pins, outside, power, softap, timer, intr, rxfifo, frmerr, alarm, crossed>>
  BY DEF PulseTimer, pulseTimer, uart
<1>2. Commanding /\ ~Alarming /\ ~pins["GPIO14"].drive
  BY <1>1, IdleIs DEF IInv, Commanding, Released14
<1>3. /\ Alarm \in Seq(AllSteps) /\ Len(Alarm) = 6 /\ Alarm # <<>> /\ Rest(Alarm, Alarm)
      /\ <<>> \in Seq(AllSteps) /\ <<>> \in Seq(PlainSteps)
  <2>1. Alarm \in Seq(AllSteps) /\ Len(Alarm) = 6
    BY AlarmSteps
  <2>2. Rest(Alarm, Alarm)
    BY <2>1, RestOfItself
  <2>3. <<>> \in Seq(AllSteps) /\ <<>> \in Seq(PlainSteps) /\ Alarm # <<>>
    BY <2>1, EmptySeq
  <2>4. QED
    BY <2>1, <2>2, <2>3
<1>4. TypeOK'
  BY <1>1, <1>3, Types DEF TypeOK, AllSteps
<1>5. Handler'
  <2>1. CASE ContactClosed
    BY <1>1, <1>2, <1>3, <2>1 DEF Handler, Alarming, Released14
  <2>2. CASE ~ContactClosed
    BY <1>1, <1>2, <1>3, <2>2 DEF Handler, Commanding, Released14
  <2>3. QED
    BY <2>1, <2>2
<1>6. (Alarming' => Len(todo') = 6) /\ Watched'
  <2>1. Alarming' => todo' # <<>>
    BY DEF Alarming
  <2>2. QED
    BY <1>1, <1>3, <2>1 DEF Watched
<1>7. Line'
  <2>1. (TxEnabled' <=> TxEnabled) /\ (HoldsLine' <=> HoldsLine)
    BY <1>1 DEF TxEnabled, HoldsLine
  <2>2. ~HoldsLine
    BY <1>1, <1>2 DEF IInv, Line, HeldByAlarm
  <2>3. TxWhileHolding' /\ MutedByReception' /\ Audible' /\ HeldByAlarm' /\ ArmedUntil'
    BY <1>1, <2>1, <2>2 DEF IInv, Line, TxWhileHolding, MutedByReception, Audible,
       HeldByAlarm, ArmedUntil
  <2>4. BeforeRaise' /\ BeforeSend'
    BY <1>6 DEF BeforeRaise, BeforeSend
  <2>5. QED
    BY <2>3, <2>4 DEF Line
<1>8. QED
  BY <1>4, <1>5, <1>6, <1>7 DEF IInv

LEMMA DriveIs ==
    ASSUME NEW levels \in Seq(0..1)
    PROVE  /\ Drive14(levels) \in Seq(ArmSteps) /\ Drive14(levels) # <<>>
           /\ Drive14(levels)[Len(Drive14(levels))] = Mode("GPIO14", GPIO_INPUT)
<1> DEFINE first == <<Await("GPIO14", 0), Mode("GPIO14", GPIO_OUTPUT)>>
           writes == [i \in DOMAIN levels |-> Write("GPIO14", levels[i])]
           last == <<Mode("GPIO14", GPIO_INPUT)>>
<1>1. first \in Seq(ArmSteps) /\ last \in Seq(ArmSteps) /\ Len(last) = 1 /\ Len(first) = 2
      /\ last[1] = Mode("GPIO14", GPIO_INPUT)
  <2>1. /\ Await("GPIO14", 0) \in ArmSteps /\ Mode("GPIO14", GPIO_OUTPUT) \in ArmSteps
        /\ Mode("GPIO14", GPIO_INPUT) \in ArmSteps
    BY DEF ArmSteps
  <2>2. QED
    BY <2>1
<1>2. writes \in Seq(ArmSteps)
  <2>1. /\ Len(levels) \in Nat /\ DOMAIN levels = 1 .. Len(levels)
        /\ \A i \in 1 .. Len(levels) : levels[i] \in 0..1
    BY LenProperties, ElementOfSeq
  <2>2. \A i \in 1 .. Len(levels) : Write("GPIO14", levels[i]) \in ArmSteps
    BY <2>1 DEF ArmSteps
  <2>3. writes \in [1 .. Len(levels) -> ArmSteps]
    BY <2>1, <2>2
  <2>4. QED
    BY <2>1, <2>3, SeqDef
<1>3. Drive14(levels) = (first \o writes) \o last
  BY DEF Drive14
<1> HIDE DEF first, writes, last
<1>4. first \o writes \in Seq(ArmSteps)
  BY <1>1, <1>2, ConcatProperties
<1> DEFINE s == first \o writes
<1> HIDE DEF s
<1>5. s \in Seq(ArmSteps) /\ Len(s) \in Nat
  BY <1>4, LenProperties DEF s
<1>6. /\ s \o last \in Seq(ArmSteps) /\ Len(s \o last) = Len(s) + Len(last)
      /\ \A i \in 1 .. Len(s) + Len(last) :
            (s \o last)[i] = IF i <= Len(s) THEN s[i] ELSE last[i - Len(s)]
  BY <1>1, <1>5, Joined, Zenon
<1>7. Len(s \o last) = Len(s) + 1 /\ (s \o last)[Len(s) + 1] = last[1]
  BY <1>1, <1>5, <1>6
<1>8. s \o last # <<>>
  BY <1>5, <1>6, <1>7, EmptyIs
<1>9. Drive14(levels) = s \o last
  BY <1>3 DEF s
<1>10. QED
  BY <1>1, <1>6, <1>7, <1>8, <1>9

LEMMA CommandIs ==
    ASSUME NEW s \in Commands
    PROVE  \/ s \in Seq(PlainSteps)
           \/ s \in Seq(ArmSteps) /\ s # <<>> /\ s[Len(s)] = Mode("GPIO14", GPIO_INPUT)
<1>1. CASE s \in {Drive14(<<0>>), Drive14(<<0, 1, 0>>), Drive14(<<1, 0>>)}
  <2>1. <<0>> \in Seq(0..1) /\ <<0, 1, 0>> \in Seq(0..1) /\ <<1, 0>> \in Seq(0..1)
    OBVIOUS
  <2>2. QED
    BY <1>1, <2>1, DriveIs
<1>2. CASE s = <<Do("intr", 0), Do("intr", 1)>>
  <2>1. Do("intr", 0) \in PlainSteps /\ Do("intr", 1) \in PlainSteps
    BY DEF PlainSteps
  <2>2. QED
    BY <1>2, <2>1
<1>3. CASE \E e \in PlainSteps : s = <<e>>
  BY <1>3, Single
<1>4. CASE \E p \in CommandPins : s \in config_cmd_gpio(p)
  <2>1. PICK p \in CommandPins : s \in config_cmd_gpio(p)
    BY <1>4
  <2>2. Write(p, 0) \in PlainSteps /\ Write(p, 1) \in PlainSteps /\ <<"pulse", p, 0>> \in PlainSteps
    BY DEF PlainSteps
  <2>3. QED
    BY <1>3, <2>1, <2>2 DEF config_cmd_gpio
<1>5. CASE s \in {<<Await("GPIO14", 0)>>, <<Do("sleep", 0)>>}
  <2>1. Await("GPIO14", 0) \in PlainSteps /\ Do("sleep", 0) \in PlainSteps
    BY DEF PlainSteps
  <2>2. QED
    BY <1>3, <1>5, <2>1
<1>6. CASE s \in config_cmd_mapping
  BY <1>1, <1>5, <1>6 DEF config_cmd_mapping
<1>7. CASE s \in config_cmd_reset_dsp
  BY <1>1, <1>5, <1>7 DEF config_cmd_reset_dsp
<1>8. CASE s \in Guarded \cup config_cmd_deep_sleep
  BY <1>2, <1>5, <1>8 DEF Guarded, config_cmd_deep_sleep
<1>9. s \in UNION {config_cmd_gpio(p) : p \in CommandPins} =>
         \E p \in CommandPins : s \in config_cmd_gpio(p)
  BY Zenon
<1>10. \/ s \in UNION {config_cmd_gpio(p) : p \in CommandPins}
       \/ s \in config_cmd_mapping \/ s \in config_cmd_reset_dsp
       \/ s \in Guarded \cup config_cmd_deep_sleep
  BY DEF Commands
<1>11. QED
  BY <1>4, <1>6, <1>7, <1>8, <1>9, <1>10

LEMMA CommandKeeps == ASSUME IInv, Command PROVE IInv'
<1>1. /\ power = "on" /\ todo = <<>> /\ todo' \in Commands
      /\ UNCHANGED <<pins, outside, power, softap, timer, intr, rxfifo, frmerr, alarm, crossed>>
  BY DEF Command, uart
<1>2. Commanding /\ ~Alarming /\ ~pins["GPIO14"].drive
  BY <1>1, IdleIs DEF IInv, Commanding, Released14
<1>3. Commanding' \/ Arming'
  BY <1>1, <1>2, CommandIs DEF Commanding, Arming, Released14
<1>4. todo' \in Seq(ArmSteps) \cup Seq(PlainSteps)
  BY <1>3 DEF Commanding, Arming
<1>5. TypeOK'
  BY <1>1, <1>4, Types, KindsOfSteps DEF TypeOK, AllSteps
<1>6. Watched'
  BY <1>1, <1>2 DEF IInv, Watched
<1>7. Apart /\ Apart'
  BY <1>2, <1>3, CommandIsApart
<1>8. Line'
  BY <1>1, <1>7, LineKept DEF IInv
<1>9. QED
  BY <1>3, <1>5, <1>6, <1>8 DEF IInv, Handler
-----------------------------------------------------------------------------
(********************* The interrupt and the surroundings *******************)

\* The interrupt may come at any point of a handler: it lets go of the line, and of
\* the transmitter with it, only once something was received.
LEMMA InterruptKeeps == ASSUME IInv, uart0_rx_intr_handler PROVE IInv'
<1>1. /\ pins \in [Pins -> Pin] /\ outside \in [Pins -> 0..1] /\ todo \in Seq(AllSteps)
      /\ power \in {"boot", "on", "sleeping", "asleep"}
      /\ timer \in {"armed", "disarmed"} /\ alarm \in {"none", "queued", "sent", "muted"}
      /\ softap \in BOOLEAN /\ intr \in BOOLEAN /\ rxfifo \in BOOLEAN /\ frmerr \in BOOLEAN
      /\ crossed \in BOOLEAN
  BY Types
<1>2. /\ UNCHANGED <<outside, todo, power, softap, rxfifo, alarm>>
      /\ intr' \in BOOLEAN /\ frmerr' \in BOOLEAN /\ Released
      /\ crossed' = (crossed \/ Crossing) /\ crossed' \in BOOLEAN
  BY <1>1 DEF uart0_rx_intr_handler, Crossing
<1>3. CASE ~(rxfifo /\ gpio_read(pins, outside, "GPIO4") = 1)
  <2>1. UNCHANGED <<pins, timer, crossed>>
    BY <1>1, <1>2, <1>3 DEF Released, Crossing, gpio_read
  <2>2. TypeOK'
    BY <1>1, <1>2, <2>1 DEF TypeOK, AllSteps
  <2>3. /\ (TxEnabled' <=> TxEnabled) /\ (HoldsLine' <=> HoldsLine)
        /\ (Alarming' <=> Alarming) /\ Handler'
    BY <1>2, <2>1 DEF IInv, TxEnabled, HoldsLine, Handler, Starting, Alarming, Arming,
       Commanding, Released14
  <2>4. Watched' /\ Line'
    BY <1>2, <2>1, <2>3 DEF IInv, Watched, Line, TxWhileHolding, MutedByReception, HeldByAlarm,
       ArmedUntil, BeforeRaise, BeforeSend, Audible
  <2>5. QED
    BY <2>2, <2>3, <2>4 DEF IInv
<1>4. CASE rxfifo /\ gpio_read(pins, outside, "GPIO4") = 1
  <2> DEFINE low  == gpio_write(pins, "GPIO4", 0)
             mute == gpio_write(low, "GPIO12", 1)
  <2>1. timer' = "armed" /\ pins' = set_gpio_mode(mute, "GPIO4", GPIO_INPUT)
    BY <1>2, <1>4 DEF Released
  <2>2. low \in [Pins -> Pin] /\ \A q \in Pins : q # "GPIO4" => low[q] = pins[q]
    BY <1>1, WriteIs, SomePins
  <2> HIDE DEF low
  <2>3. mute \in [Pins -> Pin] /\ \A q \in Pins : q # "GPIO12" => mute[q] = low[q]
        /\ mute["GPIO12"] = [drive |-> TRUE, out |-> 1]
    BY <2>2, WriteIs, SomePins
  <2> HIDE DEF mute
  <2>4. /\ set_gpio_mode(mute, "GPIO4", GPIO_INPUT) \in [Pins -> Pin]
        /\ \A q \in Pins : q # "GPIO4" =>
              set_gpio_mode(mute, "GPIO4", GPIO_INPUT)[q] = mute[q]
        /\ ~set_gpio_mode(mute, "GPIO4", GPIO_INPUT)["GPIO4"].drive
    BY <2>3, ModeIs, SomePins DEF GPIO_INPUT, GPIO_OUTPUT
  <2>5. /\ pins' \in [Pins -> Pin] /\ ~pins'["GPIO4"].drive
        /\ pins'["GPIO14"] = pins["GPIO14"]
    BY <2>1, <2>2, <2>3, <2>4, SomePins
  <2>6. TypeOK'
    BY <1>1, <1>2, <2>1, <2>5 DEF TypeOK, AllSteps
  <2>7. ~HoldsLine' /\ rxfifo' = TRUE
    BY <1>1, <1>2, <1>4, <2>5 DEF HoldsLine
  <2>8. (Alarming' <=> Alarming) /\ Handler' /\ Watched'
    BY <1>2, <2>1, <2>5 DEF IInv, Handler, Starting, Alarming, Arming, Commanding, Released14,
       Watched
  <2>9. Alarming /\ Len(todo) = 4 => crossed' = TRUE
    <3>1. SUFFICES ASSUME Alarming, Len(todo) = 4 PROVE Crossing
      BY <1>2
    <3>2. ~HoldsLine
      BY <3>1 DEF IInv, Line, HeldByAlarm, ArmedUntil
    <3>3. pins["GPIO4"] \in Pin
      BY <1>1, SomePins
    <3>4. ~(pins["GPIO4"].drive /\ pins["GPIO4"].out = 1)
      <4>1. \A c \in Pin : c.drive /\ c.out = 1 => c = [drive |-> TRUE, out |-> 1]
        BY DEF Pin
      <4>2. QED
        BY <3>2, <3>3, <4>1, Zenon DEF HoldsLine
    <3>5. ~pins["GPIO4"].drive /\ outside["GPIO4"] = 1
      BY <1>4, <3>4 DEF gpio_read
    <3>6. todo # <<>> /\ Head(todo) = Write("GPIO4", 1)
      <4>1. todo # <<>> /\ Head(todo) = todo[1] /\ Rest(todo, Alarm)
        BY <1>1, <3>1, EmptySeq DEF Alarming
      <4>2. todo[1] = Alarm[6 - 4 + 1]
        BY <3>1, <4>1, AlarmSteps DEF Rest
      <4>3. QED
        BY <4>1, <4>2, AlarmSteps
    <3>7. QED
      BY <1>4, <3>5, <3>6 DEF Crossing
  <2>10. ~TxEnabled'
    <3>1. pins'["GPIO12"] = [drive |-> TRUE, out |-> 1]
      BY <2>1, <2>3, <2>4, SomePins
    <3>2. QED
      BY <3>1 DEF TxEnabled
  <2>11. TxWhileHolding' /\ MutedByReception' /\ Audible' /\ HeldByAlarm' /\ BeforeSend'
    BY <2>7 DEF TxWhileHolding, MutedByReception, Audible, HeldByAlarm, BeforeSend
  <2>12. ArmedUntil' /\ BeforeRaise'
    BY <1>2, <2>1, <2>7, <2>8, <2>9, <2>10 DEF IInv, Line, ArmedUntil, BeforeRaise
  <2>13. QED
    BY <2>6, <2>8, <2>11, <2>12 DEF IInv, Line
<1>5. QED
  BY <1>3, <1>4

\* What leaves the pins, the handler and the timer alone.
LEMMA AroundKeeps ==
    ASSUME IInv, Transmit \/ Receive \/ Change \/ FallAsleep \/ config_cmd_sta
    PROVE  IInv'
<1>1. /\ pins \in [Pins -> Pin] /\ outside \in [Pins -> 0..1] /\ todo \in Seq(AllSteps)
      /\ power \in {"boot", "on", "sleeping", "asleep"}
      /\ timer \in {"armed", "disarmed"} /\ alarm \in {"none", "queued", "sent", "muted"}
      /\ softap \in BOOLEAN /\ intr \in BOOLEAN /\ rxfifo \in BOOLEAN /\ frmerr \in BOOLEAN
      /\ crossed \in BOOLEAN
  BY Types
<1>2. UNCHANGED <<pins, todo, timer, crossed>>
  BY DEF Transmit, Receive, Change, FallAsleep, config_cmd_sta, board, uart
<1>3. TypeOK'
  <2>1. CASE Transmit
    BY <1>1, <2>1 DEF Transmit, TypeOK, AllSteps, board
  <2>2. CASE Receive
    BY <1>1, <2>2 DEF Receive, TypeOK, AllSteps, board
  <2>3. CASE Change
    <3>1. PICK p \in Contacts \cup {"GPIO14", "GPIO4"} :
             outside' = [outside EXCEPT ![p] = 1 - @]
      BY <2>3 DEF Change
    <3>2. p \in Pins
      BY SomePins DEF Contacts
    <3>3. outside' \in [Pins -> 0..1]
      BY <1>1, <3>1, <3>2
    <3>4. QED
      BY <1>1, <2>3, <3>3 DEF Change, TypeOK, AllSteps, uart
  <2>4. CASE FallAsleep
    BY <1>1, <2>4 DEF FallAsleep, TypeOK, AllSteps, board, uart
  <2>5. CASE config_cmd_sta
    BY <1>1, <2>5 DEF config_cmd_sta, TypeOK, AllSteps, board, uart
  <2>6. QED
    BY <2>1, <2>2, <2>3, <2>4, <2>5
<1>4. /\ (TxEnabled' <=> TxEnabled) /\ (HoldsLine' <=> HoldsLine)
  BY <1>2 DEF TxEnabled, HoldsLine
<1>5. /\ power' = power \/ (power = "sleeping" /\ todo = <<>> /\ power' = "asleep")
      /\ rxfifo => rxfifo'
      /\ alarm' = alarm \/ (alarm = "queued" /\ alarm' = IF TxEnabled THEN "sent" ELSE "muted")
  <2>1. CASE Transmit
    BY <2>1 DEF Transmit, board
  <2>2. CASE Receive
    BY <1>1, <2>2 DEF Receive, board
  <2>3. CASE Change
    BY <2>3 DEF Change, uart
  <2>4. CASE FallAsleep
    BY <2>4 DEF FallAsleep, board, uart
  <2>5. CASE config_cmd_sta
    BY <2>5 DEF config_cmd_sta, board, uart
  <2>6. QED
    BY <2>1, <2>2, <2>3, <2>4, <2>5
<1>6. /\ Handler' /\ (Alarming' <=> Alarming)
      /\ alarm = "queued" => power # "boot" \/ ~Starting
  BY <1>2, <1>5 DEF IInv, Handler, Starting, Alarming, Arming, Commanding, Released14
<1>7. Watched'
  BY <1>1, <1>2, <1>5, <1>6 DEF IInv, Watched
<1>8. HeldByAlarm' /\ ArmedUntil' /\ BeforeRaise' /\ BeforeSend'
  BY <1>2, <1>4, <1>5, <1>6
     DEF IInv, Line, HeldByAlarm, ArmedUntil, BeforeRaise, BeforeSend
<1>9. TxWhileHolding' /\ MutedByReception' /\ Audible'
  BY <1>2, <1>4, <1>5 DEF IInv, Line, TxWhileHolding, MutedByReception, Audible
<1>10. QED
  BY <1>3, <1>6, <1>7, <1>8, <1>9 DEF IInv, Line

-----------------------------------------------------------------------------
(********************************* Theorems *********************************)

LEMMA NextIInv == IInv /\ [Next]_vars => IInv'
<1> SUFFICES ASSUME IInv, [Next]_vars PROVE IInv'
  OBVIOUS
<1>1. CASE Step
  BY <1>1, TaskStep
<1>2. CASE PulseTimer
  BY <1>2, PulseTimerKeeps
<1>3. CASE Command
  BY <1>3, CommandKeeps
<1>4. CASE uart0_rx_intr_handler
  BY <1>4, InterruptKeeps
<1>5. CASE Transmit \/ Receive \/ Change \/ FallAsleep \/ config_cmd_sta
  BY <1>5, AroundKeeps
<1>6. CASE Restart
  BY <1>6, RestartKeeps
<1>7. CASE UNCHANGED vars
  BY <1>7 DEF IInv, TypeOK, Handler, Starting, Alarming, Arming, Commanding, Released14, Watched,
     Line, TxWhileHolding, MutedByReception, HeldByAlarm, ArmedUntil, BeforeRaise, BeforeSend,
     Audible, HoldsLine, TxEnabled, vars, board, uart
<1>8. QED
  BY <1>1, <1>2, <1>3, <1>4, <1>5, <1>6, <1>7 DEF Next

THEOREM Invariant == Spec => []IInv
BY InitIInv, NextIInv, PTL DEF Spec

\* The variables keep their types: the handlers put only steps the task knows, of
\* pins the board has, into what it has left to do.
THEOREM TypeCorrect == Spec => []TypeOK
<1>1. IInv => TypeOK
  BY DEF IInv
<1>2. QED
  BY <1>1, Invariant, PTL

\* Wherever the interrupt comes in, the board signals on INTCOM with its transmitter
\* on, or else the interrupt crossed the taking of the line while a cable held it.
THEOREM LineSignalled == Spec => []TxWhileHolding
<1>1. IInv => TxWhileHolding
  BY DEF IInv, Line
<1>2. QED
  BY <1>1, Invariant, PTL

\* An alarm byte that nobody hears was sent after something had been received.
THEOREM AlarmHeard == Spec => []MutedByReception
<1>1. IInv => MutedByReception
  BY DEF IInv, Line
<1>2. QED
  BY <1>1, Invariant, PTL

\* No command that ends leaves the board driving the ARM's pin.
THEOREM ArmNotDriven == Spec => []ArmPinReleased
<1>1. IInv => ArmPinReleased
  BY DEF IInv, Handler, Starting, Alarming, Arming, Commanding, Released14, ArmPinReleased
<1>2. QED
  BY <1>1, Invariant, PTL

\* The timer that watches the contact is disarmed only by a handler that goes on
\* to the deep sleep.
THEOREM TimerKept == Spec => []TimerLives
<1>1. IInv => TimerLives
  <2>1. SUFFICES ASSUME IInv, power = "on", timer = "disarmed"
                 PROVE  \E i \in DOMAIN todo : todo[i] = Do("sleep", 0)
    BY DEF TimerLives
  <2>2. Alarming /\ Len(todo) = 1 /\ todo \in Seq(AllSteps)
    BY <2>1, Types DEF IInv, Watched
  <2>3. DOMAIN todo = 1 .. Len(todo)
    BY <2>2, LenProperties
  <2>4. todo[1] = Alarm[6 - 1 + 1]
    BY <2>2, AlarmSteps DEF Alarming, Rest
  <2>5. QED
    BY <2>2, <2>3, <2>4, AlarmSteps
<1>2. QED
  BY <1>1, Invariant, PTL
=============================================================================
