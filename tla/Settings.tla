------------------------------ MODULE Settings ------------------------------
(***************************************************************************)
(* The settings of the board (flash_param.c): a copy in RAM, the sector it *)
(* is kept in, and the UART registers that AT BAUD changes with it.  Power *)
(* may go at any moment and a write may stop half-way; erasing succeeds.   *)
(*                                                                         *)
(* flash_param_t is written word by word: magic and version, the baud      *)
(* rate, port and framing, the serial number.                              *)
(***************************************************************************)
EXTENDS Naturals, Sequences

CONSTANTS
    Bauds,    \* baud rates users ask for
    Ports,    \* ports users ask for
    Framings, \* framing arguments of AT BAUD: data bits, parity and stop bits,
              \* of which the last ones may be missing
    Serial,   \* the serial number from production
    Erased    \* what an erased word reads as

\* The clock the UART divides, in Hz: APB_CLK_FREQ of the SDK's eagle_soc.h.
UART_CLK_FREQ == 80000000

ASSUME BaudAssumption == Bauds \subseteq 1..(UART_CLK_FREQ \div 16)
ASSUME SettingsAssumption ==
    /\ 115200 \in Bauds /\ Erased \notin Bauds
    /\ Ports \subseteq 1..65535 /\ 23 \in Ports
    /\ Serial \notin {"zero", Erased} /\ Erased \notin {"ours", "older"}

ASSUME FramingsAssumption ==
    \A f \in Framings : /\ \E n \in 0..3 : DOMAIN f = 1..n
                        /\ \A i \in DOMAIN f : f[i] \in 0..3
                        /\ 2 \in DOMAIN f => f[2] # 3

VARIABLES
    flash_param,  \* the copy in RAM
    flash,        \* FLASH_PARAM_SECTOR
    doflash,      \* what AT FLASH set
    uart,         \* the clock divider and UART_CONF0
    pc,           \* "off", "idle", or the step of flash_param_set that is next
    cmd,          \* what called flash_param_set, or "none"
    reply,        \* the last answer to AT BAUD or AT PORT, "none" while one is served
    hurt,         \* history: a write has ever been cut short
    unsaved,      \* history: AT BAUD was not to save, and nothing was saved since
    told,         \* history: AT BAUD has set the UART since the start
    ack           \* history: the settings that were saved and answered with OK, if any,
                  \* until the sector is erased again

vars == <<flash_param, flash, doflash, uart, pc, cmd, reply, hurt, unsaved, told, ack>>

-----------------------------------------------------------------------------
(****************************** UART_CONF0 *********************************)

NONE_BITS == 2

CALC_UARTMODE(data_bits, parity, stop_bits) ==
    (IF parity = NONE_BITS THEN 0 ELSE 2 + (parity % 2))
        + (4 * (data_bits % 4)) + (16 * (stop_bits % 4))

GETUART_DATABITS(uartmode) == (uartmode \div 4) % 4
GETUART_STOPBITS(uartmode) == (uartmode \div 16) % 4

GETUART_PARITYMODE_unchecked(uartmode) == uartmode % 2            \* mutant
GETUART_PARITYMODE(uartmode) ==
    IF (uartmode \div 2) % 2 = 1 THEN uartmode % 2 ELSE NONE_BITS

\* What AT BAUD reports as the framing.
Framing(uartmode) == <<GETUART_DATABITS(uartmode), GETUART_PARITYMODE(uartmode),
                       GETUART_STOPBITS(uartmode)>>

\* 8N1, which UartDev has from the boot ROM and the settings by default.
EightN1 == CALC_UARTMODE(3, NONE_BITS, 1)

\* The arguments a user left out are taken from the settings.
Asked(framing, uartmode) ==
    LET f == [i \in 1..3 |-> IF i \in DOMAIN framing THEN framing[i]
                             ELSE Framing(uartmode)[i]]
    IN CALC_UARTMODE(f[1], f[2], f[3])

-----------------------------------------------------------------------------
(***************************** The two copies ******************************)

Blank == [head |-> Erased, baud |-> Erased, serialnumber |-> Erased,
          line |-> [port |-> 65535, uartconf0 |-> 255]]

\* What a write of s to the erased sector has stored after n of its four words.
Words == 4
Written(s, n) == [head         |-> IF n > 0 THEN s.head ELSE Blank.head,
                  baud         |-> IF n > 1 THEN s.baud ELSE Blank.baud,
                  line         |-> IF n > 2 THEN s.line ELSE Blank.line,
                  serialnumber |-> IF n > 3 THEN s.serialnumber ELSE Blank.serialnumber]

Settings(serialnumber) ==
    [head |-> "ours", baud |-> 115200, serialnumber |-> serialnumber,
     line |-> [port |-> 23, uartconf0 |-> EightN1]]

flash_param_init_defaults == Settings("zero")

Acked(s) == [baud |-> s.baud, line |-> s.line]

Good_never(s) == FALSE                                            \* mutant
Good(s) == s.head = "ours"

Modes == 0..63 \cup {255}

Stored == [head: {"ours", "older", Erased}, baud: Bauds \cup {Erased},
           line: [port: Ports \cup {65535}, uartconf0: Modes],
           serialnumber: {Serial, "zero", Erased}]

TypeOK ==
    /\ flash_param \in Stored /\ flash \in Stored
    /\ doflash \in BOOLEAN
    /\ uart \in [div: 0..UART_CLK_FREQ, conf0: Modes]
    /\ pc \in {"off", "idle", "erase", "write", "verify"}
    /\ cmd \in {"none", "init", "BAUD", "PORT"}
    /\ cmd = "none" <=> pc \in {"off", "idle"}
    /\ reply \in {"none", "OK", "ERROR"}
    /\ hurt \in BOOLEAN /\ unsaved \in BOOLEAN /\ told \in BOOLEAN
    /\ \A a \in ack : \E s \in Stored : a = Acked(s)
    /\ pc = "idle" => flash_param.head = "ours"

-----------------------------------------------------------------------------
(***************************** flash_param_set *****************************)

Erase ==
    /\ pc = "erase" /\ pc' = "write"
    /\ flash' = Blank /\ ack' = {}
    /\ UNCHANGED <<flash_param, doflash, uart, cmd, reply, hurt, unsaved, told>>

\* spi_flash_write, whose result is not looked at.
Write(n) ==
    /\ pc = "write" /\ pc' = "verify"
    /\ flash' = Written(flash_param, n)
    /\ hurt' = (hurt \/ n < Words)
    /\ UNCHANGED <<flash_param, doflash, uart, cmd, reply, unsaved, told, ack>>

\* What uart_div_modify is given.  The quotient for an erased word, 0xFFFFFFFF, is 0.
Divider(baud) == IF baud = Erased THEN 0 ELSE UART_CLK_FREQ \div baud

\* uart_init: the framing comes from UartDev.
uart_init_fixed(baud) ==                                          \* mutant
    uart' = [div |-> Divider(115200), conf0 |-> EightN1]
uart_init(baud) == uart' = [div |-> Divider(baud), conf0 |-> EightN1]

restart == pc' = "off" /\ cmd' = "none" /\ unsaved' = FALSE

\* The sector is read back and compared, and the command answers and goes on.
Same_unread(s, t) == TRUE                                         \* mutant
Same(s, t) == s = t

Answers ==
    /\ reply' = IF Same(flash, flash_param) THEN "OK" ELSE "ERROR"
    /\ ack' = IF reply' = "OK" THEN {Acked(flash_param)} ELSE {}

Verify ==
    /\ pc = "verify"
    /\ \/ /\ cmd = "init"                   \* the result is not looked at
          /\ uart_init(flash_param.baud)
          /\ pc' = "idle" /\ cmd' = "none" /\ unsaved' = FALSE
          /\ UNCHANGED <<reply, ack>>
       \/ /\ cmd = "BAUD" /\ Answers
          /\ pc' = "idle" /\ cmd' = "none" /\ unsaved' = FALSE
          /\ UNCHANGED uart
       \/ /\ cmd = "PORT" /\ Answers          \* and restarts, whatever it answered
          /\ restart
          /\ UNCHANGED uart
    /\ UNCHANGED <<flash_param, flash, doflash, hurt, told>>

-----------------------------------------------------------------------------
(************************** Start and the commands *************************)

\* user_init: flash_param_init reads the sector, and repairs it if it must.
user_init ==
    /\ pc = "off"
    /\ doflash' = TRUE /\ told' = FALSE
    /\ \/ /\ Good(flash)
          /\ flash_param' = flash
          /\ uart_init(flash.baud)
          /\ pc' = "idle" /\ UNCHANGED cmd
       \/ /\ ~Good(flash)
          /\ flash_param' = flash_param_init_defaults
          /\ pc' = "erase" /\ cmd' = "init" /\ UNCHANGED uart
    /\ UNCHANGED <<flash, reply, hurt, unsaved, ack>>

\* AT BAUD baud [data bits [parity [stop bits]]].  Told not to save, it answers OK too.
Saves == doflash

config_cmd_baud(baud, framing) ==
    /\ pc = "idle"
    /\ LET uartmode == Asked(framing, flash_param.line.uartconf0) IN
       /\ flash_param' = [flash_param EXCEPT !.baud = baud, !.line.uartconf0 = uartmode]
       /\ uart' = [div |-> Divider(baud), conf0 |-> uartmode]
    /\ \/ /\ Saves /\ pc' = "erase" /\ cmd' = "BAUD" /\ reply' = "none"
          /\ UNCHANGED unsaved
       \/ /\ ~Saves /\ unsaved' = TRUE /\ reply' = "OK"
          /\ UNCHANGED <<pc, cmd>>
    /\ told' = TRUE
    /\ UNCHANGED <<flash, doflash, hurt, ack>>

config_cmd_flash ==
    /\ pc = "idle"
    /\ doflash' = ~doflash
    /\ UNCHANGED <<flash_param, flash, uart, pc, cmd, reply, hurt, unsaved, told, ack>>

\* AT PORT port: does not ask for doflash, and saves the whole copy.  The port there is
\* already is answered with OK at once.
config_cmd_port_if_saves(port) ==                                 \* mutant
    /\ pc = "idle" /\ port # flash_param.line.port
    /\ flash_param' = [flash_param EXCEPT !.line.port = port]
    /\ IF doflash THEN pc' = "erase" /\ cmd' = "PORT" ELSE UNCHANGED <<pc, cmd>>
    /\ reply' = "none"
    /\ UNCHANGED <<flash, doflash, uart, hurt, unsaved, told, ack>>

config_cmd_port(port) ==
    /\ pc = "idle" /\ port # flash_param.line.port
    /\ flash_param' = [flash_param EXCEPT !.line.port = port]
    /\ pc' = "erase" /\ cmd' = "PORT" /\ reply' = "none"
    /\ UNCHANGED <<flash, doflash, uart, hurt, unsaved, told, ack>>

config_cmd_port_same ==
    /\ pc = "idle" /\ reply' = "OK"
    /\ UNCHANGED <<flash_param, flash, doflash, uart, pc, cmd, hurt, unsaved, told, ack>>

\* Power goes, or the watchdog or AT RESET restarts the device.
PowerCut ==
    /\ pc # "off" /\ restart
    /\ \/ /\ pc = "write" /\ hurt' = TRUE
          /\ \E n \in 0 .. Words : flash' = Written(flash_param, n)
       \/ pc # "write" /\ UNCHANGED <<flash, hurt>>
    /\ UNCHANGED <<flash_param, doflash, uart, reply, told, ack>>

-----------------------------------------------------------------------------

\* A board from production, one with an older version's settings, or a blank one.
Init ==
    /\ flash \in {Settings(Serial), [Settings(Serial) EXCEPT !.head = "older"], Blank}
    /\ flash_param = Blank                \* not loaded yet
    /\ doflash = TRUE
    /\ uart = [div |-> Divider(115200), conf0 |-> EightN1]
    /\ pc = "off" /\ cmd = "none" /\ reply = "none"
    /\ hurt = FALSE /\ unsaved = FALSE /\ told = FALSE /\ ack = {}

Next ==
    \/ user_init \/ Erase \/ Verify \/ PowerCut \/ config_cmd_flash
    \/ \E n \in 0 .. Words : Write(n)
    \/ \E baud \in Bauds, framing \in Framings : config_cmd_baud(baud, framing)
    \/ config_cmd_port_same
    \/ \E port \in Ports : config_cmd_port(port)

Spec == Init /\ [][Next]_vars

-----------------------------------------------------------------------------
(******************************** Properties *******************************)

\* The UART is set as AT BAUD reports it, up to what a start leaves out.  The divider is
\* at least 16 and the largest that does not give less than the rate reported, unless the
\* word of the rate is erased: then a write was cut short, the divider is 0, and what is
\* reported is no rate.  The framing is the one reported as soon as AT BAUD ran; until
\* then it is 8N1, whatever was saved.
BaudReported ==
    pc = "idle" =>
        /\ IF flash_param.baud = Erased THEN hurt /\ uart.div = 0
           ELSE /\ uart.div >= 16
                /\ uart.div * flash_param.baud <= UART_CLK_FREQ
                /\ UART_CLK_FREQ < (uart.div + 1) * flash_param.baud
        /\ uart.conf0 = IF told THEN flash_param.line.uartconf0 ELSE EightN1

\* A restart changes no setting, unless AT BAUD was told not to save or a write
\* was ever cut short.
RestartKeepsSettings == pc = "idle" /\ ~hurt /\ ~unsaved => flash = flash_param

\* The serial number of a board with good settings is only ever erased to be written
\* again: no command and no restart clears it.
SerialKept ==
    [][flash.serialnumber = Serial /\ flash.head = "ours" =>
          \/ flash'.serialnumber = Serial
          \/ flash_param.serialnumber = Serial /\ pc' = "write"]_vars

\* What AT BAUD or AT PORT answered with OK after saving it is in the sector until the
\* next save begins to erase it, through restarts, power cuts and AT BAUD commands that
\* are not to save; and the board runs with it unless such a command came since the
\* start.  The OK of a command that saves nothing takes nothing of this back.
OkMeansStored ==
    \A a \in ack :
        /\ Good(flash) /\ Acked(flash) = a
        /\ pc = "idle" /\ ~unsaved => Acked(flash_param) = a

\* AT BAUD leaves the framing as it was, up to what it was asked to change: what
\* CALC_UARTMODE packs, the GETUART macros unpack.
BaudKeepsFraming ==
    [][\A baud \in Bauds, framing \in Framings :
          config_cmd_baud(baud, framing) =>
              \A i \in 1..3 : Framing(flash_param'.line.uartconf0)[i] =
                  IF i \in DOMAIN framing THEN framing[i]
                  ELSE Framing(flash_param.line.uartconf0)[i]]_vars
=============================================================================
