--------------------------- MODULE Settings_proofs ---------------------------
(***************************************************************************)
(* Proofs about Settings, for every set of baud rates, ports and framings. *)
(* One inductive invariant, Kept, says how the copy in RAM, the sector and *)
(* the registers belong together at each step of flash_param_set.  What    *)
(* AT BAUD makes of the framing is arithmetic on the fields of UART_CONF0. *)
(***************************************************************************)
EXTENDS Settings, Integers, TLAPS

-----------------------------------------------------------------------------
(****************************** UART_CONF0 **********************************)

\* What CALC_UARTMODE packs, the GETUART macros unpack.
LEMMA RoundTrip ==
    ASSUME NEW d \in 0..3, NEW p \in 0..2, NEW s \in 0..3
    PROVE  /\ CALC_UARTMODE(d, p, s) \in 0..63
           /\ GETUART_DATABITS(CALC_UARTMODE(d, p, s)) = d
           /\ GETUART_PARITYMODE(CALC_UARTMODE(d, p, s)) = p
           /\ GETUART_STOPBITS(CALC_UARTMODE(d, p, s)) = s
<1>1. PICK b \in 0..3 : CALC_UARTMODE(d, p, s) = b + (4 * d) + (16 * s)
                        /\ (p = 2 => b = 0) /\ (p # 2 => b = 2 + p)
  <2>1. d % 4 = d /\ s % 4 = s /\ (p # 2 => p % 2 = p)
    OBVIOUS
  <2>2. QED
    BY <2>1 DEF CALC_UARTMODE, NONE_BITS
<1>2. /\ (b + (4 * d) + (16 * s)) \div 4 = d + (4 * s)
      /\ (b + (4 * d) + (16 * s)) \div 16 = s
      /\ (b + (4 * d) + (16 * s)) \div 2 = (b \div 2) + (2 * d) + (8 * s)
      /\ (b + (4 * d) + (16 * s)) % 2 = b % 2
  OBVIOUS
<1>3. QED
  BY <1>1, <1>2 DEF GETUART_DATABITS, GETUART_PARITYMODE, GETUART_STOPBITS, NONE_BITS

LEMMA FramingType ==
    ASSUME NEW m \in Modes
    PROVE  /\ Framing(m)[1] \in 0..3 /\ Framing(m)[2] \in 0..2 /\ Framing(m)[3] \in 0..3
BY DEF Modes, Framing, GETUART_DATABITS, GETUART_PARITYMODE, GETUART_STOPBITS, NONE_BITS

\* The arguments of AT BAUD.
LEMMA FramingArgs ==
    ASSUME NEW f \in Framings
    PROVE  /\ \A i \in DOMAIN f : f[i] \in 0..3
           /\ 2 \in DOMAIN f => f[2] \in 0..2
BY FramingsAssumption

\* The framing that was asked for, or, where nothing was, the one there was.
LEMMA AskedFraming ==
    ASSUME NEW f \in Framings, NEW m \in Modes
    PROVE  /\ Asked(f, m) \in Modes
           /\ \A i \in 1..3 : Framing(Asked(f, m))[i] =
                  IF i \in DOMAIN f THEN f[i] ELSE Framing(m)[i]
<1> DEFINE g == [i \in 1..3 |-> IF i \in DOMAIN f THEN f[i] ELSE Framing(m)[i]]
<1>2. g[1] \in 0..3 /\ g[2] \in 0..2 /\ g[3] \in 0..3
  BY FramingArgs, FramingType
<1>3. Asked(f, m) = CALC_UARTMODE(g[1], g[2], g[3])
  BY DEF Asked
<1> HIDE DEF g
<1>4. /\ Asked(f, m) \in 0..63
      /\ Framing(Asked(f, m)) = <<g[1], g[2], g[3]>>
  BY <1>2, <1>3, RoundTrip DEF Framing
<1>5. \A i \in 1..3 : Framing(Asked(f, m))[i] = g[i]
  BY <1>4
<1>6. QED
  BY <1>4, <1>5 DEF Modes, g

LEMMA EightN1Type == EightN1 \in Modes
BY RoundTrip DEF EightN1, NONE_BITS, Modes

-----------------------------------------------------------------------------
(***************************** The two copies *******************************)

\* An erased word is none of the values that mean something.
LEMMA ErasedIsNot == Erased # "ours" /\ Erased # "older" /\ Erased # Serial
BY SettingsAssumption, SMTT(30)

LEMMA Defaults == 115200 \in Bauds /\ 115200 # Erased /\ 23 \in Ports
<1>1. 115200 \in Bauds /\ 23 \in Ports
  BY SettingsAssumption, SMTT(30)
<1>2. Erased \notin Bauds
  BY SettingsAssumption, SMTT(30)
<1>3. QED
  BY <1>1, <1>2, SMT

LEMMA StoredTypes ==
    /\ Blank \in Stored /\ Blank.head \notin {"ours", "older"}
    /\ \A s \in {Serial, "zero"} : Settings(s) \in Stored
    /\ flash_param_init_defaults \in Stored
<1>1. 115200 \in Bauds /\ 23 \in Ports /\ EightN1 \in Modes /\ 255 \in Modes
  BY Defaults, EightN1Type, SMT DEF Modes
<1>2. Blank \in Stored
  BY <1>1 DEF Blank, Stored
<1>3. Blank.head \notin {"ours", "older"}
  <2>1. Blank.head = Erased
    BY DEF Blank
  <2>2. QED
    BY <2>1, ErasedIsNot, Zenon
<1>4. ASSUME NEW s \in {Serial, "zero"} PROVE Settings(s) \in Stored
  BY <1>1 DEF Settings, Stored
<1>5. QED
  BY <1>2, <1>3, <1>4 DEF flash_param_init_defaults

\* A cut write stores a serial number only as the last of its words.
LEMMA WrittenType ==
    ASSUME NEW s \in Stored, NEW n \in 0 .. Words
    PROVE  /\ Written(s, n) \in Stored
           /\ n = Words => Written(s, n) = s
           /\ Written(s, n).serialnumber = Serial => s.serialnumber = Serial
<1>1. Written(s, n) \in Stored
  BY StoredTypes DEF Written, Stored
<1>2. n = Words => Written(s, n) = s
  BY DEF Written, Stored, Words
<1>3. Written(s, n).serialnumber = Serial => s.serialnumber = Serial
  <2>1. Written(s, n).serialnumber = s.serialnumber \/ Written(s, n).serialnumber = Erased
    <3>1. Blank.serialnumber = Erased
      BY DEF Blank
    <3>2. Written(s, n).serialnumber = IF n > 3 THEN s.serialnumber ELSE Blank.serialnumber
      BY Zenon DEF Written
    <3>3. QED
      BY <3>1, <3>2
  <2>2. QED
    BY <2>1, ErasedIsNot, Zenon
<1>4. QED
  BY <1>1, <1>2, <1>3

\* What AT BAUD makes of the settings are settings.
Changed(s, baud, mode) == [s EXCEPT !.baud = baud, !.line.uartconf0 = mode]

LEMMA ChangedType ==
    ASSUME NEW s \in Stored, NEW baud \in Bauds, NEW mode \in Modes
    PROVE  /\ Changed(s, baud, mode) \in Stored
           /\ Changed(s, baud, mode).baud = baud
           /\ Changed(s, baud, mode).line.uartconf0 = mode
           /\ Changed(s, baud, mode).head = s.head
           /\ Changed(s, baud, mode).serialnumber = s.serialnumber
<1>1. PICK u : u = [s EXCEPT !.baud = baud]
  OBVIOUS
<1>2. /\ u \in Stored /\ u.baud = baud
      /\ u.head = s.head /\ u.serialnumber = s.serialnumber
  BY <1>1 DEF Stored
<1>3. Changed(s, baud, mode) = [u EXCEPT !.line.uartconf0 = mode]
  BY <1>1, Zenon DEF Changed
<1>4. QED
  BY <1>2, <1>3 DEF Stored

-----------------------------------------------------------------------------
(******************************* The divider ********************************)

\* What a clock c becomes for a rate of at most a sixteenth of it.
LEMMA DividerOf ==
    ASSUME NEW c \in Nat, NEW b \in Nat \ {0}, 16 * b <= c, NEW d, d = c \div b
    PROVE  d \in 0..c /\ d >= 16 /\ d * b <= c /\ c < (d + 1) * b
<1>1. d \in Int
  OBVIOUS
<1>2. d >= 0 /\ d * b <= c /\ c < (d + 1) * b
  OBVIOUS
<1>3. c < (d * b) + b
  OBVIOUS
<1>4. d >= 16
  BY <1>1, <1>2, <1>3
<1>5. d <= c
  OBVIOUS
<1>6. d \in 0..c
  BY <1>1, <1>2, <1>5
<1>7. QED
  BY <1>2, <1>4, <1>6, Zenon

LEMMA Sixteenth == ASSUME NEW c \in Nat, NEW n \in 1..(c \div 16)
                   PROVE  n \in Nat \ {0} /\ 16 * n <= c
BY SMT

LEMMA DividerType ==
    ASSUME NEW b \in Bauds \cup {Erased}
    PROVE  /\ Divider(b) \in 0..UART_CLK_FREQ
           /\ b = Erased => Divider(b) = 0
           /\ b # Erased => /\ Divider(b) >= 16
                            /\ Divider(b) * b <= UART_CLK_FREQ
                            /\ UART_CLK_FREQ < (Divider(b) + 1) * b
<1>1. UART_CLK_FREQ \in Nat
  BY SMT DEF UART_CLK_FREQ
<1>2. CASE b = Erased
  BY <1>1, <1>2, SMT DEF Divider
<1>3. CASE b # Erased
  <2>1. b \in 1..(UART_CLK_FREQ \div 16)
    BY <1>3, BaudAssumption, Zenon
  <2>2. b \in Nat \ {0} /\ 16 * b <= UART_CLK_FREQ
    BY <1>1, <2>1, Sixteenth
  <2>3. Divider(b) = UART_CLK_FREQ \div b
    BY <1>3, Zenon DEF Divider
  <2>4. QED
    BY <1>1, <1>3, <2>2, <2>3, DividerOf, Zenon
<1>4. QED
  BY <1>2, <1>3

-----------------------------------------------------------------------------
(****************************** The invariant *******************************)

Ours(s) == s.head = "ours" /\ s.serialnumber = Serial

\* The registers belong to the copy in RAM.
Tuned == /\ uart.div = Divider(flash_param.baud)
         /\ uart.conf0 = IF told THEN flash_param.line.uartconf0 ELSE EightN1

Kept ==
    /\ TypeOK /\ RestartKeepsSettings /\ OkMeansStored
    /\ pc = "idle" \/ cmd = "BAUD" => Tuned
    /\ cmd = "init" => ~told
    /\ pc # "off" /\ flash_param.baud = Erased => hurt
    /\ flash.head = "ours" /\ flash.baud = Erased => hurt
    /\ cmd # "none" => flash_param.head = "ours"
    /\ pc = "off" => ~unsaved
    /\ pc = "verify" /\ ~hurt => flash = flash_param
    /\ pc = "write" => flash = Blank
    /\ pc \in {"write", "verify"} => ack = {}
    /\ pc \in {"idle", "erase", "verify"} /\ Ours(flash) => flash_param.serialnumber = Serial

LEMMA KeptAtStart == Init => Kept
<1> SUFFICES ASSUME Init PROVE Kept
  OBVIOUS
<1>1. flash \in Stored
  BY StoredTypes DEF Init, Stored
<1>2. uart \in [div: 0..UART_CLK_FREQ, conf0: Modes]
  <2>1. PICK b \in Bauds : uart = [div |-> Divider(b), conf0 |-> EightN1]
    BY Defaults, SMT DEF Init
  <2>2. QED
    BY <2>1, EightN1Type, DividerType
<1>3. /\ flash_param = Blank /\ doflash = TRUE /\ pc = "off" /\ cmd = "none"
      /\ reply = "none" /\ hurt = FALSE /\ unsaved = FALSE /\ told = FALSE /\ ack = {}
  BY DEF Init
<1>4. ~(flash.head = "ours" /\ flash.baud = Erased)
  <2>1. flash = Blank \/ flash.baud # Erased
    BY Defaults, SMT DEF Init, Settings
  <2>2. QED
    BY <2>1, StoredTypes
<1>5. QED
  BY <1>1, <1>2, <1>3, <1>4, StoredTypes
     DEF Kept, TypeOK, RestartKeepsSettings, OkMeansStored

\* The steps of flash_param_set and of the commands, one lemma each where they are long.
LEMMA KeptByStart == Kept /\ user_init => Kept'
<1> SUFFICES ASSUME Kept, user_init PROVE Kept'
  OBVIOUS
<1>0. /\ TypeOK /\ flash_param \in Stored /\ flash \in Stored
      /\ hurt \in BOOLEAN /\ unsaved \in BOOLEAN /\ doflash \in BOOLEAN
  BY DEF Kept, TypeOK
<1> USE DEF RestartKeepsSettings, OkMeansStored, Ours
<1>1. CASE Good(flash)
  <2>1. /\ pc = "off" /\ pc' = "idle" /\ flash_param' = flash /\ doflash' = TRUE
        /\ uart' = [div |-> Divider(flash.baud), conf0 |-> EightN1] /\ flash.head = "ours"
        /\ told' = FALSE
        /\ UNCHANGED <<flash, cmd, reply, hurt, unsaved, ack>>
    BY <1>1 DEF user_init, uart_init, Good
  <2>2. uart' \in [div: 0..UART_CLK_FREQ, conf0: Modes]
    <3>1. flash.baud \in Bauds \cup {Erased}
      BY <1>0 DEF Stored
    <3>2. Divider(flash.baud) \in 0..UART_CLK_FREQ
      BY <3>1, DividerType
    <3>3. QED
      BY <2>1, <3>2, EightN1Type
  <2>3. Tuned'
    BY <2>1 DEF Tuned
  <2>4. TypeOK'
    BY <1>0, <2>1, <2>2 DEF TypeOK
  <2>5. OkMeansStored'
    BY <2>1 DEF Kept, Good
  <2>6. QED
    BY <1>0, <2>1, <2>3, <2>4, <2>5 DEF Kept, TypeOK
<1>2. CASE ~Good(flash)
  <2>1. /\ pc = "off" /\ pc' = "erase" /\ flash_param' = flash_param_init_defaults
        /\ doflash' = TRUE /\ cmd' = "init" /\ flash.head # "ours" /\ told' = FALSE
        /\ UNCHANGED <<flash, uart, reply, hurt, unsaved, ack>>
    BY <1>2 DEF user_init, Good
  <2>2. flash_param'.head = "ours" /\ flash_param'.baud # Erased
    BY <2>1, Defaults, SMT DEF flash_param_init_defaults, Settings
  <2>3. QED
    BY <1>0, <2>1, <2>2, StoredTypes DEF Kept, TypeOK, Good
<1>3. QED
  BY <1>1, <1>2

LEMMA KeptByWrite == ASSUME Kept, NEW n \in 0 .. Words, Write(n) PROVE Kept'
<1>0. /\ TypeOK /\ flash_param \in Stored /\ flash \in Stored
      /\ hurt \in BOOLEAN /\ unsaved \in BOOLEAN /\ doflash \in BOOLEAN
  BY DEF Kept, TypeOK
<1> USE DEF RestartKeepsSettings, OkMeansStored, Ours
<1>1. /\ pc = "write" /\ pc' = "verify" /\ flash' = Written(flash_param, n)
      /\ hurt' = (hurt \/ n < Words)
      /\ UNCHANGED <<flash_param, doflash, uart, cmd, reply, unsaved, told, ack>>
  BY DEF Write
<1>2. /\ flash' \in Stored /\ (n = Words => flash' = flash_param)
      /\ flash'.serialnumber = Serial => flash_param.serialnumber = Serial
  BY <1>0, <1>1, WrittenType
<1>3. hurt' \in BOOLEAN
  BY <1>1, Zenon
<1>4. ~hurt' => n = Words /\ ~hurt
  <2>1. n < Words \/ n = Words
    BY DEF Words
  <2>2. QED
    BY <1>1, <2>1, Zenon
<1>5. Tuned' <=> Tuned
  BY <1>1 DEF Tuned
<1>6. TypeOK'
  BY <1>0, <1>1, <1>2, <1>3 DEF TypeOK
<1>7. flash'.head = "ours" /\ flash'.baud = Erased => hurt'
  BY <1>1, <1>2, <1>4 DEF Kept
<1>8. QED
  BY <1>0, <1>1, <1>2, <1>3, <1>4, <1>5, <1>6, <1>7 DEF Kept

LEMMA KeptByVerify == Kept /\ Verify => Kept'
<1> SUFFICES ASSUME Kept, Verify PROVE Kept'
  OBVIOUS
<1>0. /\ TypeOK /\ flash_param \in Stored /\ flash \in Stored
      /\ hurt \in BOOLEAN /\ unsaved \in BOOLEAN /\ doflash \in BOOLEAN
  BY DEF Kept, TypeOK
<1> USE DEF RestartKeepsSettings, OkMeansStored, Ours
<1>1. /\ pc = "verify" /\ ack = {} /\ flash_param.head = "ours"
      /\ UNCHANGED <<flash_param, flash, doflash, hurt, told>>
  BY DEF Verify, Kept, TypeOK
<1>2. ASSUME Answers
      PROVE  /\ reply' \in {"OK", "ERROR"}
             /\ \A a \in ack' : a = Acked(flash_param) /\ flash = flash_param
  BY <1>2 DEF Answers, Same
<1>3. CASE /\ cmd = "init" /\ uart_init(flash_param.baud)
           /\ pc' = "idle" /\ cmd' = "none" /\ unsaved' = FALSE /\ UNCHANGED <<reply, ack>>
  <2>1. uart' = [div |-> Divider(flash_param.baud), conf0 |-> EightN1]
    BY <1>3 DEF uart_init
  <2>2. uart' \in [div: 0..UART_CLK_FREQ, conf0: Modes]
    <3>1. flash_param.baud \in Bauds \cup {Erased}
      BY <1>0 DEF Stored
    <3>2. Divider(flash_param.baud) \in 0..UART_CLK_FREQ
      BY <3>1, DividerType
    <3>3. QED
      BY <2>1, <3>2, EightN1Type
  <2>3. ~told
    BY <1>3 DEF Kept
  <2>4. Tuned'
    BY <1>1, <2>1, <2>3 DEF Tuned
  <2>5. TypeOK'
    BY <1>0, <1>1, <1>3, <2>2 DEF TypeOK
  <2>6. QED
    BY <1>0, <1>1, <1>3, <2>4, <2>5 DEF Kept
<1>4. CASE /\ cmd = "BAUD" /\ Answers
           /\ pc' = "idle" /\ cmd' = "none" /\ unsaved' = FALSE /\ UNCHANGED uart
  <2>1. Tuned'
    BY <1>1, <1>4 DEF Kept, Tuned
  <2>2. TypeOK'
    BY <1>0, <1>1, <1>2, <1>4 DEF TypeOK
  <2>3. OkMeansStored'
    BY <1>1, <1>2, <1>4 DEF Good
  <2>4. QED
    BY <1>0, <1>1, <1>4, <2>1, <2>2, <2>3 DEF Kept
<1>5. CASE cmd = "PORT" /\ Answers /\ restart /\ UNCHANGED uart
  <2>1. pc' = "off" /\ cmd' = "none" /\ unsaved' = FALSE
    BY <1>5 DEF restart
  <2>2. TypeOK'
    BY <1>0, <1>1, <1>2, <1>5, <2>1 DEF TypeOK
  <2>3. OkMeansStored'
    BY <1>1, <1>2, <1>5, <2>1 DEF Good
  <2>4. QED
    BY <1>0, <1>1, <1>5, <2>1, <2>2, <2>3 DEF Kept
<1>6. QED
  BY <1>3, <1>4, <1>5 DEF Verify

LEMMA KeptByBaud ==
    ASSUME Kept, NEW baud \in Bauds, NEW framing \in Framings, config_cmd_baud(baud, framing)
    PROVE  Kept'
<1> DEFINE mode == Asked(framing, flash_param.line.uartconf0)
<1>0. /\ TypeOK /\ flash_param \in Stored /\ flash \in Stored
      /\ hurt \in BOOLEAN /\ unsaved \in BOOLEAN /\ doflash \in BOOLEAN
  BY DEF Kept, TypeOK
<1> USE DEF RestartKeepsSettings, OkMeansStored, Ours
<1>1. mode \in Modes
  <2>1. flash_param.line.uartconf0 \in Modes
    BY <1>0 DEF Stored
  <2>2. QED
    BY <2>1, AskedFraming
<1>2. /\ pc = "idle" /\ uart' = [div |-> Divider(baud), conf0 |-> mode]
      /\ flash_param' = [flash_param EXCEPT !.baud = baud, !.line.uartconf0 = mode]
      /\ told' = TRUE /\ UNCHANGED <<flash, doflash, hurt, ack>>
  BY DEF config_cmd_baud
<1> HIDE DEF mode
<1>3. /\ flash_param' \in Stored /\ flash_param'.baud = baud
      /\ flash_param'.line.uartconf0 = mode
      /\ flash_param'.head = flash_param.head
      /\ flash_param'.serialnumber = flash_param.serialnumber
  <2>1. flash_param' = Changed(flash_param, baud, mode)
    BY <1>2, Zenon DEF Changed
  <2>2. QED
    BY <1>0, <1>1, <2>1, ChangedType
<1>4. uart' \in [div: 0..UART_CLK_FREQ, conf0: Modes]
  BY <1>1, <1>2, DividerType
<1>5. Tuned'
  BY <1>2, <1>3 DEF Tuned
<1>6. flash_param.head = "ours" /\ cmd = "none" /\ baud # Erased
  BY <1>2, SettingsAssumption DEF Kept, TypeOK
<1>7. CASE pc' = "erase" /\ cmd' = "BAUD" /\ reply' = "none" /\ UNCHANGED unsaved
  <2>1. TypeOK'
    BY <1>0, <1>2, <1>3, <1>4, <1>7 DEF TypeOK
  <2>2. QED
    BY <1>0, <1>2, <1>3, <1>5, <1>6, <1>7, <2>1 DEF Kept
<1>8. CASE unsaved' = TRUE /\ reply' = "OK" /\ UNCHANGED <<pc, cmd>>
  <2>1. TypeOK'
    BY <1>0, <1>2, <1>3, <1>4, <1>6, <1>8 DEF TypeOK
  <2>2. QED
    BY <1>0, <1>2, <1>3, <1>5, <1>6, <1>8, <2>1 DEF Kept
<1>9. QED
  BY <1>7, <1>8 DEF config_cmd_baud

LEMMA KeptByPort == ASSUME Kept, NEW port \in Ports, config_cmd_port(port) PROVE Kept'
<1>0. /\ TypeOK /\ flash_param \in Stored /\ flash \in Stored
      /\ hurt \in BOOLEAN /\ unsaved \in BOOLEAN /\ doflash \in BOOLEAN
  BY DEF Kept, TypeOK
<1>1. /\ pc = "idle" /\ pc' = "erase" /\ cmd' = "PORT" /\ reply' = "none"
      /\ flash_param' = [flash_param EXCEPT !.line.port = port]
      /\ UNCHANGED <<flash, doflash, uart, hurt, unsaved, told, ack>>
  BY DEF config_cmd_port
<1>2. /\ flash_param' \in Stored
      /\ flash_param'.head = flash_param.head
      /\ flash_param'.baud = flash_param.baud
      /\ flash_param'.serialnumber = flash_param.serialnumber
  BY <1>0, <1>1 DEF Stored
<1>3. flash_param.head = "ours"
  BY <1>1 DEF Kept, TypeOK
<1>4. TypeOK'
  BY <1>0, <1>1, <1>2 DEF TypeOK
<1>5. QED
  BY <1>0, <1>1, <1>2, <1>3, <1>4
     DEF Kept, RestartKeepsSettings, OkMeansStored, Ours

LEMMA KeptByPowerCut == Kept /\ PowerCut => Kept'
<1> SUFFICES ASSUME Kept, PowerCut PROVE Kept'
  OBVIOUS
<1>0. /\ TypeOK /\ flash_param \in Stored /\ flash \in Stored
      /\ hurt \in BOOLEAN /\ unsaved \in BOOLEAN /\ doflash \in BOOLEAN
  BY DEF Kept, TypeOK
<1>1. /\ pc # "off" /\ pc' = "off" /\ cmd' = "none" /\ unsaved' = FALSE
      /\ UNCHANGED <<flash_param, doflash, uart, reply, told, ack>>
  BY DEF PowerCut, restart
<1>2. /\ flash' \in Stored /\ hurt' \in BOOLEAN
      /\ hurt' = TRUE \/ UNCHANGED <<flash, hurt>>
      /\ flash' = flash \/ ack = {}
  <2>1. CASE pc # "write" /\ UNCHANGED <<flash, hurt>>
    BY <1>0, <2>1
  <2>2. ASSUME NEW n \in 0 .. Words, pc = "write", hurt' = TRUE, flash' = Written(flash_param, n)
        PROVE  flash' \in Stored /\ hurt' \in BOOLEAN /\ hurt' = TRUE /\ ack = {}
    BY <1>0, <2>2, WrittenType DEF Kept
  <2>3. QED
    BY <2>1, <2>2 DEF PowerCut
<1>3. TypeOK'
  BY <1>0, <1>1, <1>2 DEF TypeOK
<1>4. OkMeansStored'
  BY <1>1, <1>2 DEF Kept, OkMeansStored, Good
<1>5. QED
  BY <1>0, <1>1, <1>2, <1>3, <1>4 DEF Kept, RestartKeepsSettings, Ours

LEMMA KeptStays == Kept /\ [Next]_vars => Kept'
<1> SUFFICES ASSUME Kept, [Next]_vars PROVE Kept'
  OBVIOUS
<1> USE DEF RestartKeepsSettings, OkMeansStored, Ours, Tuned, Good
<1>1. CASE Erase
  <2>1. ~(Blank.head = "ours") /\ Blank \in Stored
    BY StoredTypes
  <2>2. QED
    BY <1>1, <2>1 DEF Erase, Kept, TypeOK
<1>2. CASE config_cmd_flash
  BY <1>2 DEF config_cmd_flash, Kept, TypeOK
<1>3. CASE config_cmd_port_same
  BY <1>3 DEF config_cmd_port_same, Kept, TypeOK
<1>4. CASE UNCHANGED vars
  BY <1>4 DEF vars, Kept, TypeOK
<1>5. QED
  BY <1>1, <1>2, <1>3, <1>4, KeptByStart, KeptByWrite, KeptByVerify, KeptByBaud, KeptByPort,
     KeptByPowerCut DEF Next

LEMMA AlwaysKept == Spec => []Kept
BY KeptAtStart, KeptStays, PTL DEF Spec

-----------------------------------------------------------------------------
(******************************** Theorems **********************************)

\* The types of the state, for all arguments of the commands.
THEOREM TypeCorrect == Spec => []TypeOK
<1>1. Kept => TypeOK
  BY DEF Kept
<1>2. QED
  BY <1>1, AlwaysKept, PTL

\* The line runs as AT BAUD reports, with the largest divider that gives at least the rate,
\* but for an erased rate after a cut write and the framing a start leaves at 8N1.
THEOREM BaudIsReported == Spec => []BaudReported
<1>1. Kept => BaudReported
  <2> SUFFICES ASSUME Kept, pc = "idle" PROVE BaudReported
    BY DEF BaudReported
  <2>1. flash_param.baud \in Bauds \cup {Erased}
    BY DEF Kept, TypeOK, Stored
  <2>2. Tuned /\ (flash_param.baud = Erased => hurt)
    BY DEF Kept
  <2>3. QED
    BY <2>1, <2>2, DividerType DEF BaudReported, Tuned
<1>2. QED
  BY <1>1, AlwaysKept, PTL

\* A restart changes no setting that was saved whole.
THEOREM SettingsSurvive == Spec => []RestartKeepsSettings
<1>1. Kept => RestartKeepsSettings
  BY DEF Kept
<1>2. QED
  BY <1>1, AlwaysKept, PTL

\* What was saved and answered with OK is in the sector until the next save erases it, and
\* in force again after every start.
THEOREM OkIsStored == Spec => []OkMeansStored
<1>1. Kept => OkMeansStored
  BY DEF Kept
<1>2. QED
  BY <1>1, AlwaysKept, PTL

\* The serial number is erased only to be written again.
THEOREM SerialIsKept == Spec => SerialKept
<1> DEFINE Keeps == flash.serialnumber = Serial /\ flash.head = "ours" =>
                        \/ flash'.serialnumber = Serial
                        \/ flash_param.serialnumber = Serial /\ pc' = "write"
<1>1. Kept /\ [Next]_vars => [Keeps]_vars
  <2> SUFFICES ASSUME Kept, Next PROVE Keeps
    OBVIOUS
  <2>1. CASE UNCHANGED flash
    BY <2>1
  <2>2. CASE Erase
    BY <2>2 DEF Erase, Kept, Ours
  <2>3. CASE pc = "write"
    BY <2>3, StoredTypes DEF Kept
  <2>4. QED
    BY <2>1, <2>2, <2>3 DEF Next, user_init, Write, Verify, config_cmd_baud,
       config_cmd_flash, config_cmd_port, config_cmd_port_same, PowerCut
<1>2. QED
  BY <1>1, AlwaysKept, PTL DEF Spec, SerialKept

\* AT BAUD changes of the framing what it was asked to change.
THEOREM FramingIsKept == Spec => BaudKeepsFraming
<1> DEFINE Keeps ==
      \A baud \in Bauds, framing \in Framings :
          config_cmd_baud(baud, framing) =>
              \A i \in 1..3 : Framing(flash_param'.line.uartconf0)[i] =
                  IF i \in DOMAIN framing THEN framing[i]
                  ELSE Framing(flash_param.line.uartconf0)[i]
<1>1. Kept => [Keeps]_vars
  <2> SUFFICES ASSUME Kept, NEW baud \in Bauds, NEW framing \in Framings,
                      config_cmd_baud(baud, framing)
               PROVE  \A i \in 1..3 : Framing(flash_param'.line.uartconf0)[i] =
                          IF i \in DOMAIN framing THEN framing[i]
                          ELSE Framing(flash_param.line.uartconf0)[i]
    OBVIOUS
  <2>1. flash_param \in Stored /\ flash_param.line.uartconf0 \in Modes
    BY DEF Kept, TypeOK, Stored
  <2>2. flash_param'.line.uartconf0 = Asked(framing, flash_param.line.uartconf0)
    <3>1. Asked(framing, flash_param.line.uartconf0) \in Modes
      BY <2>1, AskedFraming
    <3>2. flash_param' =
              Changed(flash_param, baud, Asked(framing, flash_param.line.uartconf0))
      BY Zenon DEF config_cmd_baud, Changed
    <3>3. QED
      BY <2>1, <3>1, <3>2, ChangedType
  <2>3. QED
    BY <2>1, <2>2, AskedFraming
<1>2. QED
  BY <1>1, AlwaysKept, PTL DEF BaudKeepsFraming
=============================================================================
