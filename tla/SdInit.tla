------------------------------- MODULE SdInit -------------------------------
(***************************************************************************)
(* The initialisation of the SD card: sd_init of src/src/driver/sd.c and   *)
(* sdInit of src/src/driver/sddef.h, against the EMMC controller and a     *)
(* card that may be of any kind, may lose a command or its answer, and may *)
(* answer when the driver has given up waiting.  The firmware has loaded   *)
(* the kernel from the same card, which therefore starts in some state.    *)
(***************************************************************************)
EXTENDS Integers

CONSTANTS None,
          BaseClock,   \* of the controller, in Hz
          Rca          \* the addresses a card may publish

(* The dividers are computed for 41.67 MHz; they do for up to 51.2 MHz.    *)
ASSUME InitAssumption == /\ BaseClock \in Nat /\ BaseClock <= 51200000
                         /\ Rca \subseteq Nat \ {0}

VARIABLES
  step, ph,      \* the step of sdInit and how far it has got
  sdCard,        \* the descriptor of the driver
  old,           \* SEND_IF_COND was not answered: an old card
  count,         \* tries of APP_SEND_OP_COND left
  result,        \* what sdInit has returned
  clock, width,  \* of the SD bus, as the controller is set up
  interrupt,     \* EMMC_INTERRUPT
  line,          \* the command on the bus (SR_CMD_INHIBIT), or None
  arg, resp0,    \* EMMC_ARG1 and EMMC_RESP0
  dat,           \* the data lines (SR_DAT_INHIBIT unless "none")
  card, kind,    \* the card
  faulty         \* something was lost, or a wait has timed out

driver == <<step, ph, sdCard, old, count, result, clock, width>>
bus == <<interrupt, line, arg, resp0, dat, card, faulty>>
vars == <<driver, bus, kind>>

-----------------------------------------------------------------------------
(* The commands sdInit uses: app commands follow an APP_CMD, rca commands  *)
(* carry the address of the card, those with resp = NO are not answered.   *)
Cmd(app, rca, resp) == [app |-> app, rca |-> rca, resp |-> resp]

sdCommandTable ==
  [GO_IDLE_STATE    |-> Cmd(FALSE, FALSE, "NO"),
   ALL_SEND_CID     |-> Cmd(FALSE, FALSE, "R2I"),
   SEND_REL_ADDR    |-> Cmd(FALSE, FALSE, "R6"),
   CARD_SELECT      |-> Cmd(FALSE, TRUE,  "R1b"),
   SEND_IF_COND     |-> Cmd(FALSE, FALSE, "R7"),
   SEND_CSD         |-> Cmd(FALSE, TRUE,  "R2S"),
   SET_BLOCKLEN     |-> Cmd(FALSE, FALSE, "R1"),
   READ_SINGLE      |-> Cmd(FALSE, FALSE, "R1"),
   APP_CMD          |-> Cmd(FALSE, FALSE, "NO"),
   APP_CMD_RCA      |-> Cmd(FALSE, TRUE,  "R1"),
   SET_BUS_WIDTH    |-> Cmd(TRUE,  FALSE, "R1"),
   APP_SEND_OP_COND |-> Cmd(TRUE,  FALSE, "R3"),
   SEND_SCR         |-> Cmd(TRUE,  FALSE, "R1")]

HCS == 1    \* ACMD41_HCS in the argument of APP_SEND_OP_COND

Command == DOMAIN sdCommandTable
ASSUME NoneAssumption == None \notin Command

(* Where the card takes a command, and the state it is in afterwards.      *)
CS == {"idle", "ready", "ident", "stby", "tran"}

TakenIn ==
  [c \in Command |->
     CASE c = "GO_IDLE_STATE" -> CS
       [] c \in {"SEND_IF_COND", "APP_CMD", "APP_SEND_OP_COND"} -> {"idle"}
       [] c = "ALL_SEND_CID" -> {"ready"}
       [] c = "SEND_REL_ADDR" -> {"ident", "stby"}
       [] c \in {"SEND_CSD", "CARD_SELECT"} -> {"stby"}
       [] c = "APP_CMD_RCA" -> {"stby", "tran"}
       [] OTHER -> {"tran"}]

(* SET_BUS_WIDTH has the code of SWITCH_FUNC, which needs no APP_CMD.      *)
Taken(c) == /\ card.state \in TakenIn[c]
            /\ sdCommandTable[c].app => card.app \/ c = "SET_BUS_WIDTH"
            /\ sdCommandTable[c].rca => arg = card.rca
            /\ c = "SEND_IF_COND" => kind.v2

(* The card after a command.  An APP_SEND_OP_COND may find it still busy,  *)
(* and a high capacity card never leaves busy if it was not asked for HCS. *)
Powers == {card.state} \cup (IF kind.hc /\ arg # HCS THEN {} ELSE {"ready"})

After(c) ==
  LET plain == [card EXCEPT !.app = FALSE] IN
  CASE c = "GO_IDLE_STATE" ->
         {[state |-> "idle", app |-> FALSE, rca |-> 0, width |-> 1]}
    [] c \in {"APP_CMD", "APP_CMD_RCA"} -> {[card EXCEPT !.app = TRUE]}
    [] c = "APP_SEND_OP_COND" -> {[plain EXCEPT !.state = s] : s \in Powers}
    [] c = "ALL_SEND_CID" -> {[plain EXCEPT !.state = "ident"]}
    [] c = "SEND_REL_ADDR" -> {[plain EXCEPT !.state = "stby", !.rca = r] : r \in Rca}
    [] c = "CARD_SELECT" -> {[plain EXCEPT !.state = "tran"]}
    [] c = "SET_BUS_WIDTH" /\ card.app -> {[plain EXCEPT !.width = 4]}
    [] OTHER -> {plain}

-----------------------------------------------------------------------------
(* The clock: the divider the driver asks for, and the clock it gives.     *)
FREQ_SETUP == 400000
FREQ_NORMAL == 25000000
HOST_SPEC_V2 == 1

fls_long(x) == IF x = 0 THEN 0 ELSE CHOOSE r \in 1..30 : 2^(r-1) <= x /\ x < 2^r

Shift(closest) == LET s == fls_long(closest - 1)
                      t == IF s > 0 THEN s - 1 ELSE 0
                  IN  IF t > 7 THEN 7 ELSE t

sdGetClockDivider(freq) ==
  LET closest == 41666666 \div freq
      divisor == IF kind.hostVer > HOST_SPEC_V2 THEN closest ELSE 2^Shift(closest)
  IN  IF divisor <= 2 THEN 2 ELSE divisor

(* The controller divides by twice the ten, or eight, bits it has.         *)
Clock(freq) ==
  BaseClock \div (2 * (sdGetClockDivider(freq)
                         % (IF kind.hostVer > HOST_SPEC_V2 THEN 1024 ELSE 256)))

-----------------------------------------------------------------------------
(* The end of sdInit, whose result sd_init does not look at.               *)
Return(r) == /\ result' = r
             /\ step' = "READ_SINGLE" /\ ph' = "start"

First(s) == IF s = "SEND_SCR" THEN "dat"
            ELSE IF s \in {"reset", "clock"} THEN "run"
            ELSE IF sdCommandTable[s].app THEN "app" ELSE "cmd"

Enter(s) == step' = s /\ ph' = First(s) /\ UNCHANGED result

TriesLeft == count > 0

RetryMutant == UNCHANGED count
Retry == count' = count - 1

(* sdAppSendOpCond after a try.                                            *)
op_cond(r, d) ==
  IF r \notin {"SD_OK", "SD_TIMEOUT"} THEN Return(r) /\ UNCHANGED count
  ELSE IF d.ocr.complete
  THEN /\ IF d.ocr.voltage THEN Enter("ALL_SEND_CID") ELSE Return("SD_ERROR_VOLTAGE")
       /\ UNCHANGED count
  ELSE IF TriesLeft THEN Enter(step) /\ Retry
  ELSE Return("SD_TIMEOUT") /\ UNCHANGED count

Type(ocr) == CASE old -> "SD_TYPE_1"
               [] ~old /\ ocr.ccs -> "SD_TYPE_2_HC"
               [] OTHER -> "SD_TYPE_2_SC"

(* The step that follows one that went well.                               *)
Following ==
  [GO_IDLE_STATE |-> IF old THEN "APP_SEND_OP_COND" ELSE "SEND_IF_COND",
   ALL_SEND_CID |-> "SEND_REL_ADDR", SEND_REL_ADDR |-> "SEND_CSD",
   SEND_CSD |-> "clock", clock |-> "CARD_SELECT", CARD_SELECT |-> "SEND_SCR",
   SET_BUS_WIDTH |-> "SET_BLOCKLEN"]

(* sdInit after the command of its step has ended with r and has left the  *)
(* descriptor d.                                                           *)
Proceed(r, d) ==
  /\ sdCard' = CASE step = "SET_BLOCKLEN" /\ r = "SD_OK" -> [d EXCEPT !.init = TRUE]
                 [] step = "APP_SEND_OP_COND" /\ d.ocr.complete /\ d.ocr.voltage ->
                      [d EXCEPT !.type = Type(d.ocr)]
                 [] OTHER -> d
  /\ width' = IF step = "SET_BUS_WIDTH" /\ r = "SD_OK" THEN 4 ELSE width
  /\ old' = (old \/ (step = "SEND_IF_COND" /\ r \notin {"SD_OK", "SD_BUSY"}))
  /\ IF step = "APP_SEND_OP_COND" THEN op_cond(r, d)
     ELSE /\ UNCHANGED count
          /\ IF step = "SEND_IF_COND" /\ old'
             THEN Enter(IF line # None THEN "reset" ELSE "APP_SEND_OP_COND")
             ELSE IF step = "SEND_IF_COND" /\ r = "SD_OK"
             THEN Enter("APP_SEND_OP_COND")
             ELSE IF step = "READ_SINGLE"
             THEN /\ step' = step /\ ph' = IF r = "SD_OK" THEN "mbr" ELSE "panic"
                  /\ UNCHANGED result
             ELSE IF r # "SD_OK" THEN Return(r)
             ELSE CASE step = "SEND_CSD" /\ ~kind.format -> Return("SD_ERROR")
                    [] step = "SEND_SCR" ->
                         step' = step /\ ph' = "scr" /\ UNCHANGED result
                    [] step = "SET_BLOCKLEN" -> Return("SD_CARD_CHANGED")
                    [] OTHER -> Enter(Following[step])
  /\ UNCHANGED clock

-----------------------------------------------------------------------------
(* sdSendCommandP ends with r: for the APP_CMD of an app command, or for   *)
(* the command itself.                                                     *)
End(r, d) ==
  IF ph \in {"app", "app_wait"}
  THEN IF sdCard.rca = 0 \/ (r = "SD_OK" /\ d.app)
       THEN /\ ph' = "cmd" /\ sdCard' = d
            /\ UNCHANGED <<step, old, count, result, clock, width>>
       ELSE Proceed(IF r = "SD_OK" THEN "SD_ERROR" ELSE r, d)
  ELSE IF sdCommandTable[step].app /\ r = "SD_OK" /\ d.rca # 0 /\ ~d.app
  THEN Proceed("SD_ERROR_APP_CMD", d)
  ELSE Proceed(r, d)

ToSend == IF ph # "app" THEN step
          ELSE IF sdCard.rca = 0 THEN "APP_CMD" ELSE "APP_CMD_RCA"

ArgumentMutant(c) == CASE sdCommandTable[c].rca -> sdCard.rca
                       [] c = "APP_SEND_OP_COND" -> HCS
                       [] OTHER -> 0
Argument(c) == CASE sdCommandTable[c].rca -> sdCard.rca
                 [] c = "APP_SEND_OP_COND" /\ ~old -> HCS
                 [] OTHER -> 0

KeepFlagsMutant == UNCHANGED interrupt
KeepDataMutant == interrupt' = interrupt \ {"CMD_DONE"}
ClearFlags == interrupt' = {}

(* sdWaitForCommand, then the command is written to the controller.        *)
sdSendCommandP_send ==
  /\ ph \in {"app", "cmd"}
  /\ line = None /\ "ERR" \notin interrupt
  /\ ClearFlags
  /\ line' = ToSend /\ arg' = Argument(ToSend)
  /\ sdCard' = [sdCard EXCEPT !.lastCmd = ToSend]
  /\ ph' = IF ph = "app" THEN "app_wait" ELSE "cmd_wait"
  /\ UNCHANGED <<step, old, count, result, clock, width, resp0, dat, card,
                 faulty, kind>>

sdWaitForCommand_busy ==
  /\ ph \in {"app", "cmd"}
  /\ line # None \/ "ERR" \in interrupt
  /\ faulty' = TRUE
  /\ End("SD_BUSY", sdCard)
  /\ UNCHANGED <<interrupt, line, arg, resp0, dat, card, kind>>

(* What a response leaves in the descriptor, and whether it is an error.   *)
Described(c) ==
  CASE sdCommandTable[c].resp \in {"R1", "R1b"} -> [sdCard EXCEPT !.app = resp0.app]
    [] sdCommandTable[c].resp = "R3" ->
         [sdCard EXCEPT !.app = FALSE, !.ocr = [complete |-> resp0.complete,
                           ccs |-> resp0.ccs, voltage |-> resp0.voltage]]
    [] sdCommandTable[c].resp = "R6" ->
         [sdCard EXCEPT !.app = resp0.app, !.rca = resp0.rca]
    [] sdCommandTable[c].resp = "NO" -> sdCard
    [] OTHER -> [sdCard EXCEPT !.app = FALSE]

Refused(c) == resp0.bad /\ sdCommandTable[c].resp \in {"R1", "R1b", "R6", "R7"}

sdSendCommandP_answer ==
  /\ ph \in {"app_wait", "cmd_wait"}
  /\ interrupt \cap {"CMD_DONE", "ERR"} # {}
  /\ \/ /\ "CMD_TIMEOUT" \in interrupt
        /\ End("SD_TIMEOUT", sdCard) /\ interrupt' = {}
     \/ /\ "CMD_TIMEOUT" \notin interrupt /\ "ERR" \in interrupt
        /\ End("SD_ERROR", sdCard) /\ interrupt' = {}
     \/ /\ {"CMD_TIMEOUT", "ERR"} \cap interrupt = {}
        /\ End(IF Refused(sdCard.lastCmd) THEN "R1_ERRORS" ELSE "SD_OK",
               Described(sdCard.lastCmd))
        /\ interrupt' = interrupt \ {"CMD_DONE"}
  /\ UNCHANGED <<line, arg, resp0, dat, card, faulty, kind>>

(* The million polls are over, perhaps just after the answer has come.     *)
sdSendCommandP_timeout ==
  /\ ph \in {"app_wait", "cmd_wait"}
  /\ interrupt' = {}
  /\ faulty' = TRUE
  /\ End("SD_TIMEOUT", sdCard)
  /\ UNCHANGED <<line, arg, resp0, dat, card, kind>>

-----------------------------------------------------------------------------
(* The steps of sdInit that are not commands.                              *)

NoCard == [rca |-> 0, app |-> FALSE, type |-> "none", init |-> FALSE,
           support4 |-> FALSE, lastCmd |-> None,
           ocr |-> [complete |-> FALSE, ccs |-> FALSE, voltage |-> FALSE]]

GoIdle == Enter("GO_IDLE_STATE")

(* sdGetBaseClock and sdResetCard up to GO_IDLE_STATE.                     *)
sdResetCard ==
  /\ step = "reset" /\ ph = "run"
  /\ interrupt' = {} /\ line' = None /\ dat' = "none"
  /\ clock' = Clock(FREQ_SETUP) /\ width' = 1
  /\ sdCard' = [NoCard EXCEPT !.init = sdCard.init]
  /\ GoIdle
  /\ UNCHANGED <<old, count, arg, resp0, card, faulty, kind>>

sdSetClock ==
  /\ step = "clock" /\ ph = "run"
  /\ line = None /\ dat = "none"
  /\ clock' = Clock(FREQ_NORMAL)
  /\ Enter(Following[step])
  /\ UNCHANGED <<sdCard, old, count, width, bus, kind>>

(* The mailbox, the reset, the clock or, in front of SEND_SCR, the data    *)
(* lines do not get ready in time.                                         *)
sdInit_fails ==
  /\ ph \in {"run", "dat"}
  /\ \E r \in CASE step = "reset" -> {"SD_ERROR", "SD_ERROR_RESET", "SD_ERROR_CLOCK"}
                 [] step = "clock" -> {"SD_ERROR_CLOCK"}
                 [] OTHER -> {"SD_TIMEOUT"} : Return(r)
  /\ faulty' = TRUE
  /\ UNCHANGED <<sdCard, old, count, clock, width, interrupt, line, arg, resp0,
                 dat, card, kind>>

sdWaitForData ==
  /\ ph = "dat" /\ dat = "none" /\ "ERR" \notin interrupt
  /\ ph' = "app"
  /\ UNCHANGED <<step, sdCard, old, count, result, clock, width, bus, kind>>

(* sdReadSCR from READ_RDY on.  It does not wait for DATA_DONE.            *)
sdReadSCR ==
  /\ ph = "scr" /\ "READ_RDY" \in interrupt /\ "ERR" \notin interrupt
  /\ interrupt' = interrupt \ {"READ_RDY"}
  /\ dat' = "drained"
  /\ sdCard' = [sdCard EXCEPT !.support4 = kind.width4]
  /\ Enter(IF kind.width4 THEN "SET_BUS_WIDTH" ELSE "SET_BLOCKLEN")
  /\ UNCHANGED <<old, count, clock, width, line, arg, resp0, card, faulty, kind>>

sdReadSCR_timeout ==
  /\ ph = "scr"
  /\ interrupt' = {} /\ faulty' = TRUE
  /\ Return("SD_TIMEOUT")
  /\ UNCHANGED <<sdCard, old, count, clock, width, line, arg, resp0, dat, card, kind>>

-----------------------------------------------------------------------------
(* sd_init goes on with the first block, whatever sdInit has returned.     *)
sd_start ==
  /\ ph = "start"
  /\ ph' = IF interrupt # {} THEN "panic" ELSE "cmd"
  /\ UNCHANGED <<step, sdCard, old, count, result, clock, width, bus, kind>>

(* The two waits of sd_init, whose results it ignores too.                 *)
Wait(b, l) ==
  /\ \/ /\ interrupt \cap {b, "ERR"} # {}
        /\ interrupt' = IF "ERR" \in interrupt THEN {} ELSE interrupt \ {b}
        /\ UNCHANGED faulty
     \/ interrupt' = {} /\ faulty' = TRUE
  /\ ph' = l
  /\ UNCHANGED <<step, sdCard, old, count, result, clock, width, line, arg,
                 resp0, card, kind>>

sd_init_fifo == /\ ph = "mbr" /\ Wait("READ_RDY", "mbr_done")
                /\ dat' = IF dat = "avail" THEN "drained" ELSE dat
sd_init_done == ph = "mbr_done" /\ Wait("DATA_DONE", "up") /\ UNCHANGED dat

-----------------------------------------------------------------------------
(* The controller and the card.  A transfer whose data have been read is   *)
(* over before the next command is.                                        *)
Answered(c, bits) ==
  /\ line' = None
  /\ interrupt' = interrupt \cup IF sdCommandTable[c].resp = "NO" THEN {"CMD_DONE"} ELSE bits
  /\ UNCHANGED <<driver, arg, kind>>

card_takes ==
  /\ line # None /\ dat # "drained" /\ Taken(line)
  /\ card' \in After(line)
  /\ resp0' = [of |-> line, bad |-> FALSE, rca |-> card'.rca,
               app |-> card.app \/ card'.app, complete |-> card'.state = "ready",
               ccs |-> kind.hc, voltage |-> kind.voltage]
  /\ dat' = CASE line \in {"SEND_SCR", "READ_SINGLE"} -> "sending"
              [] line = "CARD_SELECT" -> "busy"
              [] OTHER -> dat
  /\ Answered(line, {"CMD_DONE"})
  /\ UNCHANGED faulty

card_ignores ==
  /\ line # None /\ dat # "drained" /\ ~Taken(line)
  /\ card' = [card EXCEPT !.app = FALSE]
  /\ resp0' = [resp0 EXCEPT !.of = line]
  /\ Answered(line, {"CMD_TIMEOUT", "ERR"})
  /\ UNCHANGED <<dat, faulty>>

(* A command is lost on its way, or its answer is, or it is damaged.       *)
Lost(bad) == [resp0 EXCEPT !.of = line, !.bad = bad]

bus_loses ==
  /\ line # None /\ dat # "drained"
  /\ faulty' = TRUE
  /\ card' \in {card} \cup IF Taken(line) THEN After(line) ELSE {}
  /\ \E b \in BOOLEAN : resp0' = Lost(b)
  /\ \E bits \in {{"CMD_TIMEOUT", "ERR"}, {"ERR"}} \cup
                 IF resp0'.bad THEN {{"CMD_DONE"}} ELSE {} : Answered(line, bits)
  /\ UNCHANGED dat

card_data ==
  /\ dat \in {"sending", "busy", "drained"}
  /\ dat' = IF dat = "sending" THEN "avail" ELSE "none"
  /\ interrupt' = interrupt \cup {IF dat = "sending" THEN "READ_RDY" ELSE "DATA_DONE"}
  /\ UNCHANGED <<driver, line, arg, resp0, card, faulty, kind>>

-----------------------------------------------------------------------------
Kind == [v2 : BOOLEAN, hc : BOOLEAN, width4 : BOOLEAN, format : BOOLEAN,
         voltage : BOOLEAN, hostVer : HOST_SPEC_V2..HOST_SPEC_V2 + 1]

Init ==
  /\ step = "reset" /\ ph = "run"
  /\ sdCard = NoCard
  /\ old = FALSE /\ count = 6 /\ result = None
  /\ clock = 0 /\ width = 1
  /\ interrupt = {} /\ line = None /\ arg = 0 /\ dat = "none"
  /\ resp0 = [of |-> None, bad |-> FALSE, rca |-> 0, app |-> FALSE,
              complete |-> FALSE, ccs |-> FALSE, voltage |-> FALSE]
  /\ kind \in Kind
  /\ kind.hc => kind.v2
  /\ card \in [state : {"idle", "tran"}, app : {FALSE}, rca : {0} \cup Rca,
               width : {1, 4}]
  /\ card.state = "idle" => card.rca = 0 /\ card.width = 1
  /\ card.state = "tran" => card.rca # 0
  /\ faulty = FALSE

Driver == \/ sdSendCommandP_send \/ sdWaitForCommand_busy
          \/ sdSendCommandP_answer \/ sdSendCommandP_timeout
          \/ sdResetCard \/ sdSetClock \/ sdInit_fails
          \/ sdWaitForData \/ sdReadSCR \/ sdReadSCR_timeout
          \/ sd_start \/ sd_init_fifo \/ sd_init_done

Bus == card_takes \/ card_ignores \/ bus_loses \/ card_data

Next == Driver \/ Bus

(* CPU 0 runs sd_init; nothing is assumed of the card.                     *)
Spec == Init /\ [][Next]_vars /\ WF_vars(Driver)

-----------------------------------------------------------------------------
Result == {"SD_OK", "SD_ERROR", "SD_TIMEOUT", "SD_BUSY", "SD_ERROR_RESET",
           "SD_ERROR_CLOCK", "SD_ERROR_VOLTAGE", "SD_ERROR_APP_CMD",
           "SD_CARD_CHANGED", "R1_ERRORS"}

Ocr == [complete : BOOLEAN, ccs : BOOLEAN, voltage : BOOLEAN]

TypeOK ==
  /\ step \in {"reset", "clock"} \cup Command
  /\ ph \in {"run", "dat", "app", "app_wait", "cmd", "cmd_wait", "scr", "start",
             "mbr", "mbr_done", "up", "panic"}
  /\ sdCard \in [rca : {0} \cup Rca, app : BOOLEAN, init : BOOLEAN,
                 type : {"none", "SD_TYPE_1", "SD_TYPE_2_SC", "SD_TYPE_2_HC"},
                 support4 : BOOLEAN, lastCmd : Command \cup {None}, ocr : Ocr]
  /\ old \in BOOLEAN /\ count \in 0..6 /\ result \in Result \cup {None}
  /\ clock \in Nat /\ width \in {1, 4}
  /\ interrupt \subseteq {"CMD_DONE", "CMD_TIMEOUT", "ERR", "READ_RDY", "DATA_DONE"}
  /\ line \in Command \cup {None} /\ arg \in Nat
  /\ resp0 \in [of : Command \cup {None}, bad : BOOLEAN, rca : {0} \cup Rca,
                app : BOOLEAN, complete : BOOLEAN, ccs : BOOLEAN, voltage : BOOLEAN]
  /\ dat \in {"none", "busy", "sending", "avail", "drained"}
  /\ card \in [state : CS, app : BOOLEAN, rca : {0} \cup Rca, width : {1, 4}]
  /\ kind \in Kind /\ faulty \in BOOLEAN

(* The answer the driver takes is the one to the command it sent last,     *)
(* also when an earlier command was answered after its wait had timed out. *)
AnswersOwn ==
  /\ ph \in {"app_wait", "cmd_wait"}
  /\ interrupt \cap {"CMD_DONE", "ERR"} # {}
  => resp0.of = sdCard.lastCmd /\ line = None

(* Once the card has an address, an app command reaches it only when it    *)
(* has taken the APP_CMD before it: it never gets SET_BUS_WIDTH as         *)
(* SWITCH_FUNC.                                                            *)
AppUnderstood == line \in {"SET_BUS_WIDTH", "SEND_SCR"} => card.app

(* The clock of the bus is that of identification until the card has an    *)
(* address, and never above what the card is promised.                     *)
ClockInRange ==
  /\ clock <= FREQ_NORMAL
  /\ line # None /\ card.state \in {"idle", "ready", "ident"} => clock <= FREQ_SETUP

(* The state is well typed and the bus is used as the card expects it.     *)
BusProtocol == TypeOK /\ AnswersOwn /\ AppUnderstood /\ ClockInRange

(* Card and driver agree: on the address, on how blocks are addressed, on  *)
(* the width of the bus.                                                   *)
Agree == /\ card.state = "tran" /\ sdCard.rca = card.rca
         /\ (sdCard.type = "SD_TYPE_2_HC") = kind.hc
         /\ width = card.width

(* When sdInit says that the card is initialised it is, whatever was lost  *)
(* or late before.  sd_init does not look at the result of sdInit: it goes *)
(* on only with a card that can be used as long as nothing is lost or late.*)
CardUsable == sdCard.init \/ (ph = "up" /\ ~faulty) => Agree

(* After sdInit sd_start finds EMMC_INTERRUPT empty, although sdReadSCR    *)
(* leaves the DATA_DONE of its transfer behind, because two more commands  *)
(* clear it: a card without the wide bus gets only one.                    *)
NoPanic ==
  ph = "panic" /\ sdCard.init => faulty \/ ~kind.width4

(* All waits are bounded: sd_init ends.                                    *)
Terminates == <>(ph \in {"up", "panic"})
=============================================================================
