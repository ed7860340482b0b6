---------------------------- MODULE SdInitProofs ----------------------------
(***************************************************************************)
(* Proofs about SdInit: SdInv is an invariant, from which follow that the  *)
(* bus is used as the card expects it, that driver and card agree when the *)
(* card is said to be initialised, and that sd_start does not panic after  *)
(* an initialisation in which nothing was lost or late.                    *)
(***************************************************************************)
EXTENDS SdInit, TLAPS

Waits == {"app_wait", "cmd_wait"}
Ends == {"CMD_DONE", "CMD_TIMEOUT", "ERR"}

(* The steps of sdInit: before the card is asked to power up, between that *)
(* and its address, and those that follow.                                 *)
Early == {"reset", "GO_IDLE_STATE", "SEND_IF_COND"}
Selecting == {"SEND_CSD", "clock", "CARD_SELECT"}
Transfer == {"SEND_SCR", "SET_BUS_WIDTH", "SET_BLOCKLEN"}
Addressed == Selecting \cup Transfer
Typed == {"ALL_SEND_CID", "SEND_REL_ADDR"} \cup Addressed

AppSteps == {"APP_SEND_OP_COND", "SEND_SCR", "SET_BUS_WIDTH"}
Commands == Early \cup {"APP_SEND_OP_COND", "READ_SINGLE"} \cup Typed

(* How far a step may have got, and the command it has sent last.          *)
Phases ==
  /\ step \in Commands
  /\ ph = "run" <=> step \in {"reset", "clock"}
  /\ ph \in {"app", "app_wait"} => step \in AppSteps
  /\ ph \in {"dat", "scr"} => step = "SEND_SCR"
  /\ ph \in {"start", "mbr", "mbr_done", "up", "panic"} => step = "READ_SINGLE"
  /\ ph = "app_wait" => sdCard.lastCmd = IF sdCard.rca = 0 THEN "APP_CMD"
                                                          ELSE "APP_CMD_RCA"
  /\ ph = "cmd_wait" => sdCard.lastCmd = step

(* While the driver waits its command is on the bus or has been answered.  *)
OnTheBus ==
  /\ ph \in Waits => \/ line = sdCard.lastCmd /\ interrupt \cap Ends = {}
                     \/ line = None /\ resp0.of = sdCard.lastCmd
  /\ step \in Typed /\ line # None => ph \in Waits
  /\ ph \in Waits /\ line # None /\ sdCommandTable[line].rca => arg = sdCard.rca
  /\ line = "APP_SEND_OP_COND" => (arg = HCS <=> ~old)

(* What has become of the card that has taken command c.                   *)
Took(c) ==
  /\ c = "SEND_REL_ADDR" => card.state = "stby" /\ card.rca = resp0.rca /\ resp0.rca # 0
  /\ c = "CARD_SELECT" => card.state = "tran"
  /\ c = "APP_CMD_RCA" => card.app /\ resp0.app
  /\ c = "SEND_SCR" => resp0.app
  /\ c = "SET_BUS_WIDTH" => card.width = 4 /\ resp0.app

(* A good answer, to a command that has one with status bits, is that of a *)
(* card that has taken the command.                                        *)
Genuine ==
  /\ ph \in Waits /\ line = None
  /\ interrupt \cap Ends = {"CMD_DONE"} /\ ~resp0.bad
  => Took(sdCard.lastCmd)

(* Where the card is, by the step of the driver.                           *)
Places ==
  /\ step \in Early => /\ card.state \in {"idle", "tran"} /\ ~resp0.complete
                       /\ line \in {None, "GO_IDLE_STATE", "SEND_IF_COND"}
  /\ step \in Early \cup {"APP_SEND_OP_COND"} => ~sdCard.ocr.complete
  /\ step \in Typed => (sdCard.type = "SD_TYPE_2_HC") = kind.hc
  /\ step \in Addressed => sdCard.rca = card.rca /\ card.rca # 0
  /\ step \in {"SEND_CSD", "clock"} => card.state = "stby"
  /\ step = "CARD_SELECT" =>
       \/ card.state = "stby"
       \/ card.state = "tran" /\ card.width = 1 /\ ph = "cmd_wait" /\ line = None
  /\ step \in Transfer => card.state = "tran"
  /\ step \notin {"SET_BLOCKLEN", "READ_SINGLE"} => width = 1
  /\ card.state # "tran" => card.width = 1
  /\ step = "SEND_SCR" => card.width = 1
  /\ step = "SET_BUS_WIDTH" => card.width = 1 \/ (ph = "cmd_wait" /\ line = None)
  /\ step = "SET_BLOCKLEN" => card.width = width
  /\ line \in {"SET_BUS_WIDTH", "SEND_SCR"} => card.app
  /\ step \in {"SEND_SCR", "SET_BUS_WIDTH"} /\ ph = "cmd" => card.app

(* A card that reports its power up has read the same argument as the      *)
(* driver remembers.                                                       *)
Capacity ==
  /\ old /\ kind.hc => card.state # "ready"
  /\ resp0.complete => resp0.ccs = kind.hc /\ (old => ~kind.hc)
  /\ sdCard.ocr.complete => sdCard.ocr.ccs = kind.hc /\ (old => ~kind.hc)

(* The fast clock is for a card that has an address.                       *)
Clocks ==
  /\ clock <= FREQ_NORMAL
  /\ clock > FREQ_SETUP => /\ card.state \in {"stby", "tran"}
                           /\ line # "GO_IDLE_STATE"
                           /\ step \in {"CARD_SELECT", "READ_SINGLE"} \cup Transfer

(* A card that is said to be initialised is so, and stays so.              *)
Usable ==
  sdCard.init => Agree /\ step = "READ_SINGLE" /\ line \in {None, "READ_SINGLE"}

(* As long as nothing is lost or late the card takes every command from    *)
(* CARD_SELECT on, and it is not selected when sdInit ends early.          *)
Certain == step \in {"clock", "CARD_SELECT"} \cup Transfer \/ sdCard.init
Faultless ==
  ~faulty =>
    /\ ~resp0.bad
    /\ line # None => ph \in Waits
    /\ step \in {"SEND_IF_COND", "APP_SEND_OP_COND"} => card.state # "tran"
    /\ step \in {"ALL_SEND_CID", "SEND_REL_ADDR"} => card.state # "tran"
    /\ step = "GO_IDLE_STATE" /\ ph = "cmd_wait" /\ line = None => card.state # "tran"
    /\ step = "GO_IDLE_STATE" => interrupt \cap {"ERR", "CMD_TIMEOUT"} = {}
    /\ step = "READ_SINGLE" /\ ~sdCard.init =>
         /\ card.state # "tran"
         /\ ph = "cmd_wait" /\ line = None => "ERR" \in interrupt
         /\ ph \notin {"mbr", "mbr_done", "up"}
    /\ Certain => interrupt \cap {"ERR", "CMD_TIMEOUT"} = {}

(* The end of the transfer of SEND_SCR is over, and its flag cleared, when *)
(* SET_BUS_WIDTH is sent.                                                  *)
Cleared ==
  ~faulty /\ kind.width4 =>
    /\ step = "SET_BUS_WIDTH" =>
         /\ dat \in {"drained", "none"}
         /\ (ph = "app_wait" /\ line = None) \/ ph \in {"cmd", "cmd_wait"} => dat = "none"
    /\ (step = "SET_BUS_WIDTH" /\ ph = "cmd_wait") \/ step = "SET_BLOCKLEN"
         => dat = "none" /\ interrupt \subseteq {"CMD_DONE"}
    /\ step = "SET_BLOCKLEN" /\ ph = "cmd" => interrupt = {}
    /\ sdCard.init => /\ ph = "start" => interrupt = {} /\ dat = "none"
                      /\ ph # "panic"

SdInv ==
  /\ TypeOK /\ Phases /\ OnTheBus /\ Genuine /\ Places /\ Capacity /\ Clocks
  /\ Usable /\ Faultless /\ Cleared

-----------------------------------------------------------------------------
(* The table of commands.                                                  *)

(* The commands of the table.                                              *)
LEMMA TheCommands ==
  Command = {"GO_IDLE_STATE", "ALL_SEND_CID", "SEND_REL_ADDR", "CARD_SELECT",
             "SEND_IF_COND", "SEND_CSD", "SET_BLOCKLEN", "READ_SINGLE", "APP_CMD",
             "APP_CMD_RCA", "SET_BUS_WIDTH", "APP_SEND_OP_COND", "SEND_SCR"}
BY DEF Command, sdCommandTable

(* Which commands need an APP_CMD, and which carry the address.            *)
LEMMA TheTable ==
  ASSUME NEW c \in Command
  PROVE  /\ sdCommandTable[c].app <=> c \in AppSteps
         /\ sdCommandTable[c].rca <=> c \in {"CARD_SELECT", "SEND_CSD", "APP_CMD_RCA"}
BY TheCommands DEF sdCommandTable, Cmd, AppSteps

(* Which command has which kind of response.                               *)
LEMMA TheResponses ==
  ASSUME NEW c \in Command
  PROVE  /\ sdCommandTable[c].resp = "NO" <=> c \in {"GO_IDLE_STATE", "APP_CMD"}
         /\ sdCommandTable[c].resp = "R3" <=> c = "APP_SEND_OP_COND"
         /\ sdCommandTable[c].resp = "R6" <=> c = "SEND_REL_ADDR"
         /\ sdCommandTable[c].resp \in {"R1", "R1b"} <=>
              c \in {"CARD_SELECT", "SET_BLOCKLEN", "READ_SINGLE", "APP_CMD_RCA",
                     "SET_BUS_WIDTH", "SEND_SCR"}
         /\ sdCommandTable[c].resp \in {"R1", "R1b", "R6", "R7"} <=>
              c \notin {"GO_IDLE_STATE", "APP_CMD", "APP_SEND_OP_COND",
                        "ALL_SEND_CID", "SEND_CSD"}
BY TheCommands DEF sdCommandTable, Cmd

(* Where a step begins.                                                    *)
LEMMA TheFirst ==
  ASSUME NEW s \in Commands
  PROVE  First(s) = IF s = "SEND_SCR" THEN "dat"
                    ELSE IF s \in {"reset", "clock"} THEN "run"
                    ELSE IF s \in AppSteps THEN "app" ELSE "cmd"
BY TheTable, TheCommands
DEF First, Commands, Early, Typed, Addressed, Selecting, Transfer

(* The clock the dividers give.                                            *)
LEMMA SetupClock ==
  ASSUME kind \in Kind
  PROVE  Clock(FREQ_SETUP) \in Nat /\ Clock(FREQ_SETUP) <= FREQ_SETUP
<1>1. 41666666 \div FREQ_SETUP = 104
  BY DEF FREQ_SETUP
<1>2. CASE kind.hostVer > HOST_SPEC_V2
  <2>1. Clock(FREQ_SETUP) = BaseClock \div 208
    BY <1>1, <1>2 DEF Clock, sdGetClockDivider
  <2> QED  BY <2>1, InitAssumption DEF FREQ_SETUP
<1>3. CASE ~(kind.hostVer > HOST_SPEC_V2)
  <2> DEFINE P(r) == 2^(r-1) <= 103 /\ 103 < 2^r
  <2>1. P(7)
    OBVIOUS
  <2>2.
      /\ ~P(1) /\ ~P(2) /\ ~P(3) /\ ~P(4) /\ ~P(5) /\ ~P(6)
      /\ ~P(8) /\ ~P(9) /\ ~P(10) /\ ~P(11) /\ ~P(12) /\ ~P(13)
      /\ ~P(14) /\ ~P(15) /\ ~P(16) /\ ~P(17) /\ ~P(18) /\ ~P(19)
      /\ ~P(20) /\ ~P(21) /\ ~P(22) /\ ~P(23) /\ ~P(24) /\ ~P(25)
      /\ ~P(26) /\ ~P(27) /\ ~P(28) /\ ~P(29) /\ ~P(30)
    OBVIOUS
  <2>3. \A r \in 1..30 :
          r \in {1, 2, 3, 4, 5, 6, 7, 8, 9, 10, 11, 12, 13, 14, 15, 16,
                17, 18, 19, 20, 21, 22, 23, 24, 25, 26, 27, 28, 29, 30}
    OBVIOUS
  <2> HIDE DEF P
  <2>4. \A r \in 1..30 : P(r) <=> r = 7
    BY <2>1, <2>2, <2>3
  <2>5. fls_long(103) = CHOOSE r \in 1..30 : P(r)
    BY DEF fls_long, P
  <2>6. fls_long(103) = 7
    BY <2>4, <2>5
  <2>7. Shift(104) = 6
    BY <2>6 DEF Shift
  <2>8. 2^Shift(104) = 2^6
    BY <2>7, Zenon
  <2>9. Clock(FREQ_SETUP) = BaseClock \div 128
    BY <1>1, <1>3, <2>8 DEF Clock, sdGetClockDivider
  <2> QED  BY <2>9, InitAssumption DEF FREQ_SETUP
<1> QED  BY <1>2, <1>3

(* The divider for transfers gives at most 25 MHz.                         *)
LEMMA NormalClock ==
  ASSUME kind \in Kind
  PROVE  Clock(FREQ_NORMAL) \in Nat /\ Clock(FREQ_NORMAL) <= FREQ_NORMAL
<1>1. 41666666 \div FREQ_NORMAL = 1
  BY DEF FREQ_NORMAL
<1>2. 2^Shift(1) = 1
  BY DEF Shift, fls_long
<1>3. sdGetClockDivider(FREQ_NORMAL) = 2
  BY <1>1, <1>2 DEF sdGetClockDivider
<1>4. Clock(FREQ_NORMAL) = BaseClock \div 4
  BY <1>3 DEF Clock
<1> QED  BY <1>4, InitAssumption DEF FREQ_NORMAL

-----------------------------------------------------------------------------
(* How a command of sdInit ends.                                           *)

Descriptor == [rca : {0} \cup Rca, app : BOOLEAN, init : BOOLEAN,
               type : {"none", "SD_TYPE_1", "SD_TYPE_2_SC", "SD_TYPE_2_HC"},
               support4 : BOOLEAN, lastCmd : Command \cup {None}, ocr : Ocr]

Stays == UNCHANGED <<old, count, result, clock, width>>

(* The APP_CMD is over, the command itself comes next.                     *)
AppReady(r, d) ==
  /\ ph \in {"app", "app_wait"}
  /\ sdCard.rca = 0 \/ (r = "SD_OK" /\ d.app)
  /\ ph' = "cmd" /\ step' = step /\ sdCard' = d /\ Stays

(* The command itself has ended well.                                      *)
Success(r, d) == /\ ph \notin {"app", "app_wait"} /\ r = "SD_OK"
                 /\ step \in AppSteps => d.rca = 0 \/ d.app

(* sdInit gives up.                                                        *)
GivesUp(r, d) ==
  /\ step # "READ_SINGLE" /\ step' = "READ_SINGLE" /\ ph' = "start"
  /\ ph \in {"app", "app_wait"} => r # "SD_OK" \/ ~d.app
  /\ Success(r, d) => step \in {"SEND_CSD", "APP_SEND_OP_COND"}
  /\ sdCard' \in {d, [d EXCEPT !.type = Type(d.ocr)]}
  /\ result' \in Result
  /\ UNCHANGED <<old, count, clock, width>>

(* SEND_IF_COND shows whether the card is an old one.                      *)
OldOrNew(r, d) ==
  /\ step = "SEND_IF_COND"
  /\ \/ old' = TRUE /\ step' = "reset" /\ ph' = "run" /\ line # None
     \/ old' = TRUE /\ step' = "APP_SEND_OP_COND" /\ ph' = "app" /\ line = None
     \/ old' = old /\ step' = "APP_SEND_OP_COND" /\ ph' = "app" /\ r = "SD_OK"
  /\ sdCard' = d
  /\ UNCHANGED <<count, result, clock, width>>

(* sdAppSendOpCond tries again, or has seen the card power up.             *)
TriesAgain(d) ==
  /\ step = "APP_SEND_OP_COND" /\ step' = step /\ ph' = "app"
  /\ ~d.ocr.complete /\ sdCard' = d
  /\ count > 0 /\ count' = count - 1
  /\ UNCHANGED <<old, result, clock, width>>

PowersUp(r, d) ==
  /\ step = "APP_SEND_OP_COND" /\ step' = "ALL_SEND_CID" /\ ph' = "cmd"
  /\ d.ocr.complete /\ sdCard' = [d EXCEPT !.type = Type(d.ocr)]
  /\ Stays

(* The command went well and the next step follows.                        *)
Succeeds(r, d) ==
  /\ Success(r, d)
  /\ \/ /\ \/ step = "GO_IDLE_STATE" /\ ~old /\ step' = "SEND_IF_COND" /\ ph' = "cmd"
           \/ step = "GO_IDLE_STATE" /\ old /\ step' = "APP_SEND_OP_COND" /\ ph' = "app"
           \/ step = "ALL_SEND_CID" /\ step' = "SEND_REL_ADDR" /\ ph' = "cmd"
           \/ step = "SEND_REL_ADDR" /\ step' = "SEND_CSD" /\ ph' = "cmd"
           \/ step = "SEND_CSD" /\ step' = "clock" /\ ph' = "run"
           \/ step = "CARD_SELECT" /\ step' = "SEND_SCR" /\ ph' = "dat"
        /\ sdCard' = d /\ Stays
     \/ /\ step = "SET_BUS_WIDTH" /\ step' = "SET_BLOCKLEN" /\ ph' = "cmd"
        /\ width' = 4 /\ sdCard' = d /\ UNCHANGED <<old, count, result, clock>>
     \/ /\ step = "SEND_SCR" /\ step' = step /\ ph' = "scr"
        /\ sdCard' = d /\ Stays
     \/ /\ step = "SET_BLOCKLEN" /\ step' = "READ_SINGLE" /\ ph' = "start"
        /\ sdCard' = [d EXCEPT !.init = TRUE] /\ result' = "SD_CARD_CHANGED"
        /\ UNCHANGED <<old, count, clock, width>>

(* The first block, read by sd_init.                                       *)
FirstBlock(r, d) ==
  /\ step = "READ_SINGLE" /\ step' = step
  /\ ph' = IF r = "SD_OK" THEN "mbr" ELSE "panic"
  /\ sdCard' = d /\ Stays

(* sdInit goes on in one of six ways after a command.                      *)
LEMMA ProceedIs ==
  ASSUME TypeOK, Phases, NEW r \in Result, NEW d \in Descriptor, NEW q \in Result,
         ph \in {"app", "cmd"} \cup Waits, Proceed(q, d),
         q = "SD_OK" <=> Success(r, d), q # "SD_OK" \/ q = r,
         ph \in {"app", "app_wait"} => r # "SD_OK" \/ ~d.app,
         step \notin AppSteps => q = r
  PROVE  \/ GivesUp(r, d) \/ OldOrNew(r, d) \/ TriesAgain(d) \/ PowersUp(r, d)
         \/ Succeeds(r, d) \/ FirstBlock(r, d)
<1>0. step \in Commands \ {"reset", "clock"}
  BY DEF Phases, Waits
<1>1. CASE step = "APP_SEND_OP_COND"
  <2>1. /\ op_cond(q, d)
        /\ sdCard' = IF d.ocr.complete /\ d.ocr.voltage
                     THEN [d EXCEPT !.type = Type(d.ocr)] ELSE d
        /\ UNCHANGED <<clock, width, old>>
    BY <1>1 DEF Proceed, TypeOK
  <2>2. First("ALL_SEND_CID") = "cmd" /\ First("APP_SEND_OP_COND") = "app"
    BY TheFirst DEF Commands, Typed, AppSteps
  <2>3. CASE q \notin {"SD_OK", "SD_TIMEOUT"}
    BY <1>1, <2>1, <2>3 DEF op_cond, Return, GivesUp
  <2>4. CASE q \in {"SD_OK", "SD_TIMEOUT"} /\ d.ocr.complete /\ d.ocr.voltage
    BY <1>1, <2>1, <2>2, <2>4 DEF op_cond, Enter, PowersUp, Stays
  <2>5. CASE q \in {"SD_OK", "SD_TIMEOUT"} /\ d.ocr.complete /\ ~d.ocr.voltage
    BY <1>1, <2>1, <2>5 DEF op_cond, Return, GivesUp, Result
  <2>6. CASE q \in {"SD_OK", "SD_TIMEOUT"} /\ ~d.ocr.complete
    BY <1>1, <2>1, <2>2, <2>6
    DEF op_cond, Return, GivesUp, TriesAgain, TriesLeft, Retry, Enter, Result, TypeOK
  <2> QED  BY <2>3, <2>4, <2>5, <2>6
<1>2. CASE step = "SEND_IF_COND"
  <2>1. /\ sdCard' = d /\ UNCHANGED <<count, clock, width>>
        /\ old' = (old \/ q \notin {"SD_OK", "SD_BUSY"})
    BY <1>2 DEF Proceed
  <2>2. First("APP_SEND_OP_COND") = "app" /\ First("reset") = "run"
    BY TheFirst DEF Commands, Early, AppSteps
  <2>3. q = r
    BY <1>2 DEF AppSteps
  <2>4. CASE old'
    BY <1>2, <2>1, <2>2, <2>4 DEF Proceed, Enter, OldOrNew
  <2>5. CASE ~old' /\ q = "SD_OK"
    BY <1>2, <2>1, <2>2, <2>3, <2>5 DEF Proceed, Enter, OldOrNew, TypeOK
  <2>6. CASE ~old' /\ q # "SD_OK"
    BY <1>2, <2>1, <2>6 DEF Proceed, Return, GivesUp, TypeOK
  <2> QED  BY <2>4, <2>5, <2>6
<1>3. CASE step = "READ_SINGLE"
  BY <1>3 DEF Proceed, FirstBlock, Stays, AppSteps, TypeOK
<1>4. CASE step \notin {"APP_SEND_OP_COND", "SEND_IF_COND", "READ_SINGLE"} /\ q # "SD_OK"
  BY <1>4 DEF Proceed, Return, GivesUp, TypeOK
<1>5. CASE /\ step \notin {"APP_SEND_OP_COND", "SEND_IF_COND", "READ_SINGLE"}
           /\ q = "SD_OK"
  <2>1. Success(r, d)
    BY <1>5
  <2>2. /\ sdCard' = IF step = "SET_BLOCKLEN" THEN [d EXCEPT !.init = TRUE] ELSE d
        /\ width' = IF step = "SET_BUS_WIDTH" THEN 4 ELSE width
        /\ UNCHANGED <<old, count, clock>>
    BY <1>5 DEF Proceed, TypeOK
  <2>3. CASE step = "SEND_CSD" /\ ~kind.format
    BY <2>1, <2>2, <2>3, <1>5 DEF Proceed, Return, GivesUp, Result
  <2>4. CASE step \in {"SEND_SCR", "SET_BLOCKLEN"}
    BY <2>1, <2>2, <2>4, <1>5 DEF Proceed, Return, Succeeds, Stays
  <2>5. CASE step = "SET_BUS_WIDTH"
    <3>1. First("SET_BLOCKLEN") = "cmd" /\ Following[step] = "SET_BLOCKLEN"
      BY <2>5, TheFirst DEF Commands, Typed, Addressed, Transfer, AppSteps, Following
    <3> QED  BY <2>1, <2>2, <2>5, <1>5, <3>1 DEF Proceed, Enter, Succeeds
  <2>6. CASE /\ step \in {"GO_IDLE_STATE", "ALL_SEND_CID", "SEND_REL_ADDR", "SEND_CSD",
                          "CARD_SELECT"}
             /\ step = "SEND_CSD" => kind.format
    <3>1. step' = Following[step] /\ ph' = First(Following[step]) /\ UNCHANGED result
      BY <2>6, <1>5 DEF Proceed, Enter
    <3>2. Following[step] \in Commands
      BY <2>6 DEF Following, Commands, Early, Typed, Addressed, Selecting, Transfer
    <3>3. ph' = IF step' = "SEND_SCR" THEN "dat"
                ELSE IF step' \in {"reset", "clock"} THEN "run"
                ELSE IF step' \in AppSteps THEN "app" ELSE "cmd"
      BY <3>1, <3>2, TheFirst
    <3> QED  BY <2>1, <2>2, <2>6, <1>5, <3>1, <3>3
             DEF Succeeds, Stays, Following, AppSteps
  <2> QED  BY <1>0, <1>5, <2>3, <2>4, <2>5, <2>6
           DEF Commands, Early, Typed, Addressed, Selecting, Transfer
<1> QED  BY <1>1, <1>2, <1>3, <1>4, <1>5

(* sdSendCommandP ends in one of seven ways.                               *)
LEMMA EndIs ==
  ASSUME TypeOK, Phases, NEW r \in Result, NEW d \in Descriptor,
         ph \in {"app", "cmd"} \cup Waits, End(r, d)
  PROVE  \/ AppReady(r, d) \/ GivesUp(r, d) \/ OldOrNew(r, d) \/ TriesAgain(d)
         \/ PowersUp(r, d) \/ Succeeds(r, d) \/ FirstBlock(r, d)
<1>1. CASE ph \in {"app", "app_wait"} /\ (sdCard.rca = 0 \/ (r = "SD_OK" /\ d.app))
  BY <1>1 DEF End, AppReady, Stays
<1>2. CASE ph \in {"app", "app_wait"} /\ ~(sdCard.rca = 0 \/ (r = "SD_OK" /\ d.app))
  <2> DEFINE q == IF r = "SD_OK" THEN "SD_ERROR" ELSE r
  <2>1. Proceed(q, d) /\ q \in Result /\ q # "SD_OK" /\ ~Success(r, d)
    BY <1>2 DEF End, Result, Success
  <2>2. step \in AppSteps
    BY <1>2 DEF Phases
  <2> HIDE DEF q
  <2> QED  BY <1>2, <2>1, <2>2, ProceedIs
<1>3. CASE ph \notin {"app", "app_wait"}
  <2>0. step \in Command
    BY <1>3, TheCommands DEF TypeOK, Phases, Waits
  <2>1. CASE step \in AppSteps /\ r = "SD_OK" /\ d.rca # 0 /\ ~d.app
    <3>1. Proceed("SD_ERROR_APP_CMD", d) /\ "SD_ERROR_APP_CMD" \in Result
          /\ ~Success(r, d)
      BY <1>3, <2>0, <2>1, TheTable DEF End, Result, Success
    <3> QED  BY <1>3, <3>1, <2>1, ProceedIs
  <2>2. CASE ~(step \in AppSteps /\ r = "SD_OK" /\ d.rca # 0 /\ ~d.app)
    <3>1. Proceed(r, d) /\ (r = "SD_OK" <=> Success(r, d))
      BY <1>3, <2>0, <2>2, TheTable DEF End, Success
    <3> QED  BY <1>3, <3>1, ProceedIs
  <2> QED  BY <2>1, <2>2
<1> QED  BY <1>1, <1>2, <1>3

-----------------------------------------------------------------------------
(* What holds where sdSendCommandP ends with r and leaves d.               *)
Site(r, d) ==
  /\ ph \in {"app", "cmd"} \cup Waits
  /\ r \in Result /\ d \in Descriptor
  /\ d.type = sdCard.type /\ d.init = sdCard.init /\ d.lastCmd = sdCard.lastCmd
  /\ r = "SD_OK" => /\ ph \in Waits /\ line = None /\ Took(sdCard.lastCmd)
                    /\ interrupt \cap Ends = {"CMD_DONE"}
                    /\ interrupt' = interrupt \ {"CMD_DONE"}
                    /\ sdCard.lastCmd = "SEND_REL_ADDR" => d.rca = resp0.rca
                    /\ sdCard.lastCmd \in {"APP_CMD_RCA", "SEND_SCR", "SET_BUS_WIDTH"}
                         => d.app = resp0.app
  /\ step # "SEND_REL_ADDR" => d.rca = sdCard.rca
  /\ d.ocr.complete => d.ocr.ccs = kind.hc /\ (old => ~kind.hc)
  /\ d.ocr.complete /\ step \in Early \cup {"APP_SEND_OP_COND"} =>
       r = "SD_OK" /\ step = "APP_SEND_OP_COND" /\ ph = "cmd_wait"
  /\ interrupt' \subseteq interrupt
  /\ faulty' \in BOOLEAN
  /\ faulty => faulty'
  /\ ~faulty' => /\ ph \in Waits /\ line = None
                 /\ r # "SD_OK" => interrupt \cap {"ERR", "CMD_TIMEOUT"} # {}
  /\ UNCHANGED <<line, arg, resp0, dat, card, kind>>

(* Every end of a command keeps SdInv.                                     *)
LEMMA EndKeeps ==
  ASSUME SdInv, NEW r, NEW d, Site(r, d), End(r, d)
  PROVE  SdInv'
<1> USE DEF SdInv, Site, Waits, Ends, Early, Selecting, Transfer, Addressed, Typed,
        AppSteps, Commands
<1>0. \/ AppReady(r, d) \/ GivesUp(r, d) \/ OldOrNew(r, d) \/ TriesAgain(d)
      \/ PowersUp(r, d) \/ Succeeds(r, d) \/ FirstBlock(r, d)
  BY EndIs
<1>1. TypeOK'
  <2>1. sdCard' \in Descriptor
    BY <1>0 DEF AppReady, GivesUp, OldOrNew, TriesAgain, PowersUp, Succeeds, FirstBlock,
                Descriptor, Type
  <2>2. step' \in {"reset", "clock"} \cup Command
    BY <1>0, TheCommands
    DEF AppReady, GivesUp, OldOrNew, TriesAgain, PowersUp, Succeeds,
                FirstBlock, TypeOK
  <2>3. ph' \in {"run", "dat", "app", "cmd", "scr", "start", "mbr", "panic"}
    BY <1>0 DEF AppReady, GivesUp, OldOrNew, TriesAgain, PowersUp, Succeeds, FirstBlock
  <2>4. old' \in BOOLEAN /\ result' \in Result \cup {None}
    <3>1. "SD_CARD_CHANGED" \in Result
      BY DEF Result
    <3> QED  BY <1>0, <3>1 DEF AppReady, GivesUp, OldOrNew, TriesAgain, PowersUp, Succeeds,
                FirstBlock, Stays, TypeOK
  <2>6. count' \in 0..6
    BY <1>0 DEF AppReady, GivesUp, OldOrNew, TriesAgain, PowersUp, Succeeds, FirstBlock,
                Stays, TypeOK
  <2>5. clock' = clock /\ width' \in {1, 4}
    BY <1>0 DEF AppReady, GivesUp, OldOrNew, TriesAgain, PowersUp, Succeeds, FirstBlock,
                Stays, TypeOK
  <2> QED  BY <2>1, <2>2, <2>3, <2>4, <2>5, <2>6 DEF TypeOK, Descriptor
<1>2. Phases'
  <2>1. CASE AppReady(r, d)
    BY <2>1 DEF AppReady, Phases
  <2>2. CASE GivesUp(r, d)
    BY <2>2 DEF GivesUp, Phases
  <2>3. CASE OldOrNew(r, d)
    BY <2>3 DEF OldOrNew, Phases
  <2>4. CASE TriesAgain(d)
    BY <2>4 DEF TriesAgain, Phases
  <2>5. CASE PowersUp(r, d)
    BY <2>5 DEF PowersUp, Phases
  <2>6. CASE Succeeds(r, d)
    BY <2>6 DEF Succeeds, Phases
  <2>7. CASE FirstBlock(r, d)
    BY <2>7 DEF FirstBlock, Phases
  <2> QED  BY <1>0, <2>1, <2>2, <2>3, <2>4, <2>5, <2>6, <2>7
<1>3. OnTheBus'
  <2>1. CASE AppReady(r, d)
    BY <2>1 DEF AppReady, Stays, OnTheBus, Phases, Places
  <2>2. CASE GivesUp(r, d)
    BY <2>2 DEF GivesUp, OnTheBus
  <2>3. CASE OldOrNew(r, d)
    BY <2>3, NoneAssumption, TheCommands DEF OldOrNew, OnTheBus, Places
  <2>4. CASE TriesAgain(d)
    BY <2>4 DEF TriesAgain, OnTheBus
  <2>5. CASE PowersUp(r, d)
    BY <2>5, NoneAssumption, TheCommands DEF PowersUp, OnTheBus
  <2>6. CASE Succeeds(r, d)
    BY <2>6, NoneAssumption, TheCommands DEF Succeeds, Success, OnTheBus
  <2>7. CASE FirstBlock(r, d)
    BY <2>7 DEF FirstBlock, Stays, OnTheBus
  <2> QED  BY <1>0, <2>1, <2>2, <2>3, <2>4, <2>5, <2>6, <2>7
<1>4. Genuine'
  <2>1. CASE AppReady(r, d)
    BY <2>1 DEF AppReady, Genuine
  <2>2. CASE GivesUp(r, d)
    BY <2>2 DEF GivesUp, Genuine
  <2>3. CASE OldOrNew(r, d)
    BY <2>3 DEF OldOrNew, Genuine
  <2>4. CASE TriesAgain(d)
    BY <2>4 DEF TriesAgain, Genuine
  <2>5. CASE PowersUp(r, d)
    BY <2>5 DEF PowersUp, Genuine
  <2>6. CASE Succeeds(r, d)
    BY <2>6 DEF Succeeds, Genuine
  <2>7. CASE FirstBlock(r, d)
    BY <2>7 DEF FirstBlock, Genuine
  <2> QED  BY <1>0, <2>1, <2>2, <2>3, <2>4, <2>5, <2>6, <2>7
<1>5. Places'
  <2>1. CASE AppReady(r, d)
    <3>1. step \in {"SEND_SCR", "SET_BUS_WIDTH"} => card.app
      <4> SUFFICES ASSUME step \in {"SEND_SCR", "SET_BUS_WIDTH"} PROVE card.app
        OBVIOUS
      <4>1. sdCard.rca # 0
        BY DEF Places, Addressed, Transfer
      <4>2. r = "SD_OK" /\ ph = "app_wait"
        BY <2>1, <4>1 DEF AppReady, Waits
      <4> QED  BY <4>1, <4>2 DEF Phases, Took
    <3>2. step \in AppSteps
      BY <2>1 DEF AppReady, Phases
    <3> QED  BY <2>1, <3>1, <3>2 DEF AppReady, Stays, Places, Early, Selecting,
             Transfer, Addressed, Typed, AppSteps
  <2>2. CASE GivesUp(r, d)
    BY <2>2 DEF GivesUp, Places
  <2>3. CASE OldOrNew(r, d)
    BY <2>3 DEF OldOrNew, Places
  <2>4. CASE TriesAgain(d)
    BY <2>4 DEF TriesAgain, Places
  <2>5. CASE PowersUp(r, d)
    BY <2>5 DEF PowersUp, Stays, Type, Places, Descriptor, Ocr
  <2>6. CASE Succeeds(r, d)
    BY <2>6 DEF Succeeds, Success, Stays, Places, Phases, Took
  <2>7. CASE FirstBlock(r, d)
    BY <2>7 DEF FirstBlock, Places
  <2> QED  BY <1>0, <2>1, <2>2, <2>3, <2>4, <2>5, <2>6, <2>7
<1>6. Capacity'
  <2>1. CASE AppReady(r, d)
    BY <2>1 DEF AppReady, Stays, Capacity
  <2>2. CASE GivesUp(r, d)
    BY <2>2 DEF GivesUp, Capacity, Descriptor
  <2>3. CASE OldOrNew(r, d)
    BY <2>3 DEF OldOrNew, Capacity, Places
  <2>4. CASE TriesAgain(d)
    BY <2>4 DEF TriesAgain, Capacity
  <2>5. CASE PowersUp(r, d)
    BY <2>5 DEF PowersUp, Stays, Capacity
  <2>6. CASE Succeeds(r, d)
    BY <2>6 DEF Succeeds, Stays, Capacity, Descriptor
  <2>7. CASE FirstBlock(r, d)
    BY <2>7 DEF FirstBlock, Stays, Capacity
  <2> QED  BY <1>0, <2>1, <2>2, <2>3, <2>4, <2>5, <2>6, <2>7
<1>7. Clocks'
  <2>1. CASE AppReady(r, d)
    BY <2>1 DEF AppReady, Stays, Clocks
  <2>2. CASE GivesUp(r, d)
    BY <2>2 DEF GivesUp, Clocks
  <2>3. CASE OldOrNew(r, d)
    BY <2>3 DEF OldOrNew, Clocks
  <2>4. CASE TriesAgain(d)
    BY <2>4 DEF TriesAgain, Clocks
  <2>5. CASE PowersUp(r, d)
    BY <2>5 DEF PowersUp, Stays, Clocks
  <2>6. CASE Succeeds(r, d)
    BY <2>6 DEF Succeeds, Stays, Clocks
  <2>7. CASE FirstBlock(r, d)
    BY <2>7 DEF FirstBlock, Stays, Clocks
  <2> QED  BY <1>0, <2>1, <2>2, <2>3, <2>4, <2>5, <2>6, <2>7
<1>8. Usable'
  <2>1. CASE AppReady(r, d)
    BY <2>1 DEF AppReady, Usable, Phases
  <2>2. CASE GivesUp(r, d)
    BY <2>2 DEF GivesUp, Usable, Descriptor
  <2>3. CASE OldOrNew(r, d)
    BY <2>3 DEF OldOrNew, Usable
  <2>4. CASE TriesAgain(d)
    BY <2>4 DEF TriesAgain, Usable
  <2>5. CASE PowersUp(r, d)
    BY <2>5 DEF PowersUp, Usable
  <2>6. CASE Succeeds(r, d)
    BY <2>6 DEF Succeeds, Success, Usable, Places, Agree, Descriptor
  <2>7. CASE FirstBlock(r, d)
    BY <2>7 DEF FirstBlock, Stays, Usable, Agree
  <2> QED  BY <1>0, <2>1, <2>2, <2>3, <2>4, <2>5, <2>6, <2>7
<1>9. Faultless'
  <2>1. CASE AppReady(r, d)
    BY <2>1 DEF AppReady, Faultless, Certain
  <2>2. CASE GivesUp(r, d)
    BY <2>2 DEF GivesUp, Success, Faultless, Phases, Took, Places, Certain, Descriptor
  <2>3. CASE OldOrNew(r, d)
    BY <2>3 DEF OldOrNew, Faultless, Certain
  <2>4. CASE TriesAgain(d)
    BY <2>4 DEF TriesAgain, Faultless, Certain
  <2>5. CASE PowersUp(r, d)
    BY <2>5 DEF PowersUp, Faultless
  <2>6. CASE Succeeds(r, d)
    BY <2>6 DEF Succeeds, Success, Faultless, Descriptor
  <2>7. CASE FirstBlock(r, d)
    BY <2>7 DEF FirstBlock, Faultless, Phases, Certain
  <2> QED  BY <1>0, <2>1, <2>2, <2>3, <2>4, <2>5, <2>6, <2>7
<1>10. Cleared'
  <2>1. CASE AppReady(r, d)
    BY <2>1 DEF AppReady, Cleared
  <2>2. CASE GivesUp(r, d)
    BY <2>2 DEF GivesUp, Cleared, Usable, Descriptor
  <2>3. CASE OldOrNew(r, d)
    BY <2>3 DEF OldOrNew, Cleared
  <2>4. CASE TriesAgain(d)
    BY <2>4 DEF TriesAgain, Cleared
  <2>5. CASE PowersUp(r, d)
    BY <2>5 DEF PowersUp, Cleared
  <2>6. CASE Succeeds(r, d)
    BY <2>6 DEF Succeeds, Success, Cleared
  <2>7. CASE FirstBlock(r, d)
    BY <2>7 DEF FirstBlock, Cleared, Faultless, Certain
  <2> QED  BY <1>0, <2>1, <2>2, <2>3, <2>4, <2>5, <2>6, <2>7
<1> QED  BY <1>1, <1>2, <1>3, <1>4, <1>5, <1>6, <1>7, <1>8, <1>9, <1>10

-----------------------------------------------------------------------------
(* The five places where sdSendCommandP ends.                              *)

(* sdWaitForCommand gives up.                                              *)
LEMMA BusyKeeps ==
  ASSUME SdInv, sdWaitForCommand_busy
  PROVE  SdInv'
<1>1. Site("SD_BUSY", sdCard)
  BY
  DEF SdInv, sdWaitForCommand_busy, Site, TypeOK, Descriptor, Result, Capacity, Places
<1> QED  BY <1>1, EndKeeps DEF sdWaitForCommand_busy

(* The wait for the answer is over.                                        *)
LEMMA TimeoutKeeps ==
  ASSUME SdInv, sdSendCommandP_timeout
  PROVE  SdInv'
<1>1. Site("SD_TIMEOUT", sdCard)
  BY DEF SdInv, sdSendCommandP_timeout, Site, Waits, TypeOK, Descriptor, Result,
         Capacity, Places
<1> QED  BY <1>1, EndKeeps DEF sdSendCommandP_timeout

(* An answer is there, good or bad.                                        *)
LEMMA AnswerKeeps ==
  ASSUME SdInv, sdSendCommandP_answer
  PROVE  SdInv'
<1> USE DEF SdInv
<1>1. ph \in Waits /\ line = None /\ resp0.of = sdCard.lastCmd
  BY DEF sdSendCommandP_answer, OnTheBus, Waits, Ends
<1>2. sdCard \in Descriptor /\ sdCard.lastCmd \in Command
  BY <1>1, TheCommands
  DEF TypeOK, Descriptor, Phases, Waits, Commands, Early, Typed, Addressed, Selecting,
      Transfer, AppSteps
<1>3. ASSUME NEW r \in {"SD_TIMEOUT", "SD_ERROR"}, End(r, sdCard), interrupt' = {},
             "CMD_TIMEOUT" \in interrupt \/ "ERR" \in interrupt
      PROVE  SdInv'
  <2>1. Site(r, sdCard)
    BY <1>1, <1>2, <1>3 DEF sdSendCommandP_answer, Site, Waits, TypeOK, Result,
       Capacity, Places
  <2> QED  BY <1>3, <2>1, EndKeeps
<1>4. ASSUME {"CMD_TIMEOUT", "ERR"} \cap interrupt = {},
             End(IF Refused(sdCard.lastCmd) THEN "R1_ERRORS" ELSE "SD_OK",
                 Described(sdCard.lastCmd)),
             interrupt' = interrupt \ {"CMD_DONE"}
      PROVE  SdInv'
  <2> DEFINE r == IF Refused(sdCard.lastCmd) THEN "R1_ERRORS" ELSE "SD_OK"
             d == Described(sdCard.lastCmd)
  <2>1. /\ d \in Descriptor
        /\ d.type = sdCard.type /\ d.init = sdCard.init /\ d.lastCmd = sdCard.lastCmd
        /\ d.rca = IF sdCard.lastCmd = "SEND_REL_ADDR" THEN resp0.rca ELSE sdCard.rca
        /\ d.ocr = IF sdCard.lastCmd = "APP_SEND_OP_COND"
                   THEN [complete |-> resp0.complete, ccs |-> resp0.ccs,
                         voltage |-> resp0.voltage]
                   ELSE sdCard.ocr
        /\ sdCard.lastCmd \in {"APP_CMD_RCA", "SEND_SCR", "SET_BUS_WIDTH"}
             => d.app = resp0.app
    <3>1. CASE sdCard.lastCmd \in {"CARD_SELECT", "SET_BLOCKLEN", "READ_SINGLE",
                                  "APP_CMD_RCA", "SET_BUS_WIDTH", "SEND_SCR"}
      <4>1. d = [sdCard EXCEPT !.app = resp0.app]
        BY <1>2, <3>1, TheResponses DEF Described
      <4> QED  BY <1>2, <3>1, <4>1 DEF Descriptor, TypeOK
    <3>2. CASE sdCard.lastCmd = "APP_SEND_OP_COND"
      <4>1. d = [sdCard EXCEPT !.app = FALSE, !.ocr = [complete |-> resp0.complete,
                               ccs |-> resp0.ccs, voltage |-> resp0.voltage]]
        BY <1>2, <3>2, TheResponses DEF Described
      <4>2. [complete |-> resp0.complete, ccs |-> resp0.ccs,
             voltage |-> resp0.voltage] \in Ocr
        BY DEF TypeOK, Ocr
      <4> QED  BY <1>2, <3>2, <4>1, <4>2 DEF Descriptor
    <3>3. CASE sdCard.lastCmd = "SEND_REL_ADDR"
      <4>1. d = [sdCard EXCEPT !.app = resp0.app, !.rca = resp0.rca]
        BY <1>2, <3>3, TheResponses DEF Described
      <4> QED  BY <1>2, <3>3, <4>1 DEF Descriptor, TypeOK
    <3>4. CASE sdCard.lastCmd \in {"GO_IDLE_STATE", "APP_CMD"}
      <4>1. d = sdCard
        BY <1>2, <3>4, TheResponses DEF Described
      <4> QED  BY <1>2, <3>4, <4>1
    <3>5. CASE sdCard.lastCmd \in {"ALL_SEND_CID", "SEND_IF_COND", "SEND_CSD"}
      <4>1. d = [sdCard EXCEPT !.app = FALSE]
        BY <1>2, <3>5, TheResponses DEF Described
      <4> QED  BY <1>2, <3>5, <4>1 DEF Descriptor
    <3> QED  BY <1>2, <3>1, <3>2, <3>3, <3>4, <3>5, TheCommands
  <2>2. r \in Result
    BY DEF Result
  <2>3. interrupt \cap Ends = {"CMD_DONE"}
    BY <1>4 DEF sdSendCommandP_answer, Ends
  <2>4. r = "SD_OK" => Took(sdCard.lastCmd)
    <3>1. CASE resp0.bad
      BY <1>2, <3>1, TheResponses DEF Refused, Took
    <3>2. CASE ~resp0.bad
      BY <1>1, <2>3, <3>2 DEF Genuine
    <3> QED  BY <3>1, <3>2
  <2>5. ~faulty => r = "SD_OK"
    BY DEF Faultless, Refused, TypeOK
  <2>6. sdCard.lastCmd \in {"SEND_REL_ADDR", "APP_SEND_OP_COND"} =>
          ph = "cmd_wait" /\ step = sdCard.lastCmd
    BY <1>1 DEF Phases, Waits
  <2>7. sdCard.lastCmd = "APP_SEND_OP_COND" => r = "SD_OK"
    BY <1>2, TheResponses DEF Refused
  <2>8. /\ d.ocr.complete => d.ocr.ccs = kind.hc /\ (old => ~kind.hc)
        /\ d.ocr.complete /\ step \in Early \cup {"APP_SEND_OP_COND"} =>
             r = "SD_OK" /\ step = "APP_SEND_OP_COND" /\ ph = "cmd_wait"
    BY <2>1, <2>6, <2>7 DEF Capacity, Places
  <2> HIDE DEF r, d
  <2>9. Site(r, d)
    BY <1>1, <1>4, <2>1, <2>2, <2>3, <2>4, <2>5, <2>6, <2>8
    DEF sdSendCommandP_answer, Site, TypeOK
  <2> QED  BY <1>4, <2>9, EndKeeps DEF r, d
<1> QED  BY <1>3, <1>4 DEF sdSendCommandP_answer

(* A command is sent.                                                      *)
LEMMA SendKeeps ==
  ASSUME SdInv, sdSendCommandP_send
  PROVE  SdInv'
<1> USE DEF SdInv, Waits, Ends, Early, Selecting, Transfer, Addressed, Typed, AppSteps,
        Commands
<1>0. ToSend \in Command
  BY TheCommands DEF sdSendCommandP_send, ToSend, TypeOK, Phases
<1>1. TypeOK'
  <2>1. Argument(ToSend) \in Nat
    BY InitAssumption, TheCommands DEF Argument, TypeOK, HCS
  <2>2. sdCard' \in Descriptor
    BY <1>0 DEF sdSendCommandP_send, TypeOK, Descriptor
  <2> QED  BY <1>0, <2>1, <2>2 DEF sdSendCommandP_send, ClearFlags, TypeOK, Descriptor
<1>2. Phases'
  BY DEF sdSendCommandP_send, ToSend, Phases
<1>3. OnTheBus'
  BY TheCommands, TheTable DEF sdSendCommandP_send, Argument, ClearFlags, HCS, OnTheBus
<1>4. Genuine'
  BY NoneAssumption, TheCommands DEF sdSendCommandP_send, Genuine, Took
<1>5. Places'
  BY DEF sdSendCommandP_send, ToSend, Places, Phases
<1>6. Capacity'
  BY DEF sdSendCommandP_send, Capacity
<1>7. Clocks'
  BY DEF sdSendCommandP_send, ToSend, Clocks
<1>8. Usable'
  BY DEF sdSendCommandP_send, ToSend, Usable, Agree, Phases
<1>9. Faultless'
  BY NoneAssumption, TheCommands DEF sdSendCommandP_send, ToSend, ClearFlags, Faultless
<1>10. Cleared'
  BY NoneAssumption, TheCommands DEF sdSendCommandP_send, ToSend, ClearFlags, Cleared
<1> QED  BY <1>1, <1>2, <1>3, <1>4, <1>5, <1>6, <1>7, <1>8, <1>9, <1>10

(* The controller is reset.                                                *)
LEMMA ResetKeeps ==
  ASSUME SdInv, sdResetCard
  PROVE  SdInv'
<1> USE DEF SdInv, Waits, Ends, Early, Selecting, Transfer, Addressed, Typed, AppSteps,
        Commands
<1>0. clock' \in Nat /\ clock' <= FREQ_SETUP
  BY SetupClock DEF sdResetCard, TypeOK
<1>1. TypeOK'
  <2>1. sdCard' \in Descriptor
    BY DEF sdResetCard, NoCard, TypeOK, Descriptor, Ocr
  <2>2. step' = "GO_IDLE_STATE" /\ ph' = "cmd" /\ UNCHANGED result
    BY TheFirst DEF sdResetCard, GoIdle, Enter, Commands, Early, AppSteps
  <2> QED  BY <1>0, <2>1, <2>2, TheCommands DEF sdResetCard, TypeOK, Descriptor
<1>2. Phases'
  BY TheFirst DEF sdResetCard, GoIdle, Enter, Phases
<1>3. OnTheBus'
  BY NoneAssumption, TheCommands, TheFirst DEF sdResetCard, GoIdle, Enter, OnTheBus
<1>4. Genuine'
  BY DEF sdResetCard, Genuine
<1>5. Places'
  BY NoneAssumption, TheCommands DEF sdResetCard, NoCard, GoIdle, Enter, Places
<1>6. Capacity'
  BY DEF sdResetCard, NoCard, Capacity
<1>7. Clocks'
  BY <1>0 DEF Clocks, FREQ_SETUP, FREQ_NORMAL
<1>8. Usable'
  BY DEF sdResetCard, Usable
<1>9. Faultless'
  BY TheFirst DEF sdResetCard, GoIdle, Enter, Faultless
<1>10. Cleared'
  BY DEF sdResetCard, Cleared, Usable
<1> QED  BY <1>1, <1>2, <1>3, <1>4, <1>5, <1>6, <1>7, <1>8, <1>9, <1>10

(* The clock is raised.                                                    *)
LEMMA SetClockKeeps ==
  ASSUME SdInv, sdSetClock
  PROVE  SdInv'
<1> USE DEF SdInv, Waits, Ends, Early, Selecting, Transfer, Addressed, Typed, AppSteps,
        Commands
<1>1. TypeOK'
  BY TheCommands, TheFirst, NormalClock DEF sdSetClock, Enter, Following, bus, TypeOK
<1>2. Phases'
  BY TheFirst DEF sdSetClock, Enter, Following, Phases
<1>3. OnTheBus'
  BY TheFirst DEF sdSetClock, Enter, Following, bus, OnTheBus
<1>4. Genuine'
  BY TheFirst DEF sdSetClock, Enter, Following, Genuine
<1>5. Places'
  BY DEF sdSetClock, Enter, Following, bus, Places
<1>6. Capacity'
  BY DEF sdSetClock, bus, Capacity
<1>7. Clocks'
  BY NoneAssumption, TheCommands, NormalClock
  DEF sdSetClock, Enter, Following, bus, Clocks, TypeOK, Places
<1>8. Usable'
  BY DEF sdSetClock, Usable
<1>9. Faultless'
  BY TheFirst DEF sdSetClock, Enter, bus, Faultless, Certain, Places
<1>10. Cleared'
  BY TheFirst DEF sdSetClock, Enter, Following, Cleared
<1> QED  BY <1>1, <1>2, <1>3, <1>4, <1>5, <1>6, <1>7, <1>8, <1>9, <1>10

(* A wait of sdInit is over.                                               *)
LEMMA FailsKeeps ==
  ASSUME SdInv, sdInit_fails
  PROVE  SdInv'
<1> USE DEF SdInv, Waits, Ends, Early, Selecting, Transfer, Addressed, Typed, AppSteps,
        Commands
<1>1. TypeOK'
  BY TheCommands DEF sdInit_fails, Return, Result, TypeOK
<1>2. Phases'
  BY DEF sdInit_fails, Return, Phases
<1>3. OnTheBus'
  BY DEF sdInit_fails, Return, OnTheBus
<1>4. Genuine'
  BY DEF sdInit_fails, Return, Genuine
<1>5. Places'
  BY DEF sdInit_fails, Return, Places
<1>6. Capacity'
  BY DEF sdInit_fails, Capacity
<1>7. Clocks'
  BY DEF sdInit_fails, Return, Clocks
<1>8. Usable'
  BY DEF sdInit_fails, Usable, Phases
<1>9. Faultless'
  BY DEF sdInit_fails, Faultless
<1>10. Cleared'
  BY DEF sdInit_fails, Cleared
<1> QED  BY <1>1, <1>2, <1>3, <1>4, <1>5, <1>6, <1>7, <1>8, <1>9, <1>10

(* The data lines are free.                                                *)
LEMMA DataKeeps ==
  ASSUME SdInv, sdWaitForData
  PROVE  SdInv'
<1> USE DEF SdInv, Waits, Ends, Early, Selecting, Transfer, Addressed, Typed, AppSteps,
        Commands
<1>1. TypeOK'
  BY DEF sdWaitForData, bus, TypeOK
<1>2. Phases'
  BY DEF sdWaitForData, Phases
<1>3. OnTheBus'
  BY DEF sdWaitForData, bus, OnTheBus
<1>4. Genuine'
  BY DEF sdWaitForData, Genuine
<1>5. Places'
  BY DEF sdWaitForData, bus, Places
<1>6. Capacity'
  BY DEF sdWaitForData, bus, Capacity
<1>7. Clocks'
  BY DEF sdWaitForData, bus, Clocks
<1>8. Usable'
  BY DEF sdWaitForData, Usable, Phases
<1>9. Faultless'
  BY DEF sdWaitForData, bus, Faultless, Certain
<1>10. Cleared'
  BY DEF sdWaitForData, Cleared, Phases
<1> QED  BY <1>1, <1>2, <1>3, <1>4, <1>5, <1>6, <1>7, <1>8, <1>9, <1>10

(* The SCR has been read.                                                  *)
LEMMA ScrKeeps ==
  ASSUME SdInv, sdReadSCR
  PROVE  SdInv'
<1> USE DEF SdInv, Waits, Ends, Early, Selecting, Transfer, Addressed, Typed, AppSteps,
        Commands
<1>1. TypeOK'
  BY TheCommands, TheFirst DEF sdReadSCR, Enter, Kind, TypeOK
<1>2. Phases'
  BY TheFirst DEF sdReadSCR, Enter, Phases
<1>3. OnTheBus'
  BY TheFirst DEF sdReadSCR, Enter, OnTheBus, Phases
<1>4. Genuine'
  BY TheFirst DEF sdReadSCR, Enter, Genuine
<1>5. Places'
  BY TheFirst DEF sdReadSCR, Enter, Places, Phases
<1>6. Capacity'
  BY DEF sdReadSCR, Capacity
<1>7. Clocks'
  BY DEF sdReadSCR, Enter, Clocks
<1>8. Usable'
  BY DEF sdReadSCR, Usable, Phases
<1>9. Faultless'
  BY DEF sdReadSCR, Enter, Faultless, Certain, Phases
<1>10. Cleared'
  BY TheFirst DEF sdReadSCR, Enter, Cleared
<1> QED  BY <1>1, <1>2, <1>3, <1>4, <1>5, <1>6, <1>7, <1>8, <1>9, <1>10

(* The SCR does not come.                                                  *)
LEMMA ScrTimeoutKeeps ==
  ASSUME SdInv, sdReadSCR_timeout
  PROVE  SdInv'
<1> USE DEF SdInv, Waits, Ends, Early, Selecting, Transfer, Addressed, Typed, AppSteps,
        Commands
<1>1. TypeOK'
  BY TheCommands DEF sdReadSCR_timeout, Return, Result, TypeOK
<1>2. Phases'
  BY DEF sdReadSCR_timeout, Return, Phases
<1>3. OnTheBus'
  BY DEF sdReadSCR_timeout, Return, OnTheBus
<1>4. Genuine'
  BY DEF sdReadSCR_timeout, Genuine
<1>5. Places'
  BY DEF sdReadSCR_timeout, Return, Places
<1>6. Capacity'
  BY DEF sdReadSCR_timeout, Capacity
<1>7. Clocks'
  BY DEF sdReadSCR_timeout, Return, Clocks
<1>8. Usable'
  BY DEF sdReadSCR_timeout, Usable, Phases
<1>9. Faultless'
  BY DEF sdReadSCR_timeout, Faultless
<1>10. Cleared'
  BY DEF sdReadSCR_timeout, Cleared
<1> QED  BY <1>1, <1>2, <1>3, <1>4, <1>5, <1>6, <1>7, <1>8, <1>9, <1>10

(* sd_start looks at the interrupt register.                               *)
LEMMA StartKeeps ==
  ASSUME SdInv, sd_start
  PROVE  SdInv'
<1> USE DEF SdInv, Waits, Ends, Early, Selecting, Transfer, Addressed, Typed, AppSteps,
        Commands
<1>1. TypeOK'
  BY DEF sd_start, bus, TypeOK
<1>2. Phases'
  BY DEF sd_start, Phases
<1>3. OnTheBus'
  BY DEF sd_start, bus, OnTheBus
<1>4. Genuine'
  BY DEF sd_start, Genuine
<1>5. Places'
  BY DEF sd_start, bus, Places, Phases
<1>6. Capacity'
  BY DEF sd_start, bus, Capacity
<1>7. Clocks'
  BY DEF sd_start, bus, Clocks
<1>8. Usable'
  BY DEF sd_start, bus, Usable, Agree
<1>9. Faultless'
  BY DEF sd_start, bus, Faultless, Certain
<1>10. Cleared'
  BY NoneAssumption, TheCommands
  DEF sd_start, bus, Cleared, TypeOK, Faultless, Certain, Usable, Phases, OnTheBus,
      Places
<1> QED  BY <1>1, <1>2, <1>3, <1>4, <1>5, <1>6, <1>7, <1>8, <1>9, <1>10

(* sd_init reads the first block.                                          *)
LEMMA FifoKeeps ==
  ASSUME SdInv, sd_init_fifo
  PROVE  SdInv'
<1> USE DEF SdInv, Waits, Ends, Early, Selecting, Transfer, Addressed, Typed, AppSteps,
        Commands
<1>1. TypeOK'
  <2>1. interrupt' \subseteq interrupt /\ faulty' \in BOOLEAN /\ ph' = "mbr_done"
    BY DEF sd_init_fifo, Wait, TypeOK
  <2>2. dat' \in {"none", "busy", "sending", "avail", "drained"}
    BY DEF sd_init_fifo, TypeOK
  <2> QED  BY <2>1, <2>2 DEF sd_init_fifo, Wait, TypeOK
<1>2. Phases'
  BY DEF sd_init_fifo, Wait, Phases
<1>3. OnTheBus'
  BY DEF sd_init_fifo, Wait, OnTheBus
<1>4. Genuine'
  BY DEF sd_init_fifo, Wait, Genuine
<1>5. Places'
  BY DEF sd_init_fifo, Wait, Places
<1>6. Capacity'
  BY DEF sd_init_fifo, Wait, Capacity
<1>7. Clocks'
  BY DEF sd_init_fifo, Wait, Clocks
<1>8. Usable'
  BY DEF sd_init_fifo, Wait, Usable, Agree
<1>9. Faultless'
  BY DEF sd_init_fifo, Wait, Faultless, Certain
<1>10. Cleared'
  BY DEF sd_init_fifo, Wait, Cleared
<1> QED  BY <1>1, <1>2, <1>3, <1>4, <1>5, <1>6, <1>7, <1>8, <1>9, <1>10

(* sd_init has waited for the end of the transfer.                         *)
LEMMA DoneKeeps ==
  ASSUME SdInv, sd_init_done
  PROVE  SdInv'
<1> USE DEF SdInv, Waits, Ends, Early, Selecting, Transfer, Addressed, Typed, AppSteps,
        Commands
<1>1. TypeOK'
  <2>1. interrupt' \subseteq interrupt /\ faulty' \in BOOLEAN /\ ph' = "up"
    BY DEF sd_init_done, Wait, TypeOK
  <2>2. dat' \in {"none", "busy", "sending", "avail", "drained"}
    BY DEF sd_init_done, TypeOK
  <2> QED  BY <2>1, <2>2 DEF sd_init_done, Wait, TypeOK
<1>2. Phases'
  BY DEF sd_init_done, Wait, Phases
<1>3. OnTheBus'
  BY DEF sd_init_done, Wait, OnTheBus
<1>4. Genuine'
  BY DEF sd_init_done, Wait, Genuine
<1>5. Places'
  BY DEF sd_init_done, Wait, Places
<1>6. Capacity'
  BY DEF sd_init_done, Wait, Capacity
<1>7. Clocks'
  BY DEF sd_init_done, Wait, Clocks
<1>8. Usable'
  BY DEF sd_init_done, Wait, Usable, Agree
<1>9. Faultless'
  BY DEF sd_init_done, Wait, Faultless, Certain
<1>10. Cleared'
  BY DEF sd_init_done, Wait, Cleared
<1> QED  BY <1>1, <1>2, <1>3, <1>4, <1>5, <1>6, <1>7, <1>8, <1>9, <1>10

(* The data lines change.                                                  *)
LEMMA CardDataKeeps ==
  ASSUME SdInv, card_data
  PROVE  SdInv'
<1> USE DEF SdInv, Waits, Ends, Early, Selecting, Transfer, Addressed, Typed, AppSteps,
        Commands
<1>1. TypeOK'
  BY DEF card_data, driver, TypeOK
<1>2. Phases'
  BY DEF card_data, driver, Phases
<1>3. OnTheBus'
  BY DEF card_data, driver, OnTheBus
<1>4. Genuine'
  BY DEF card_data, driver, Genuine, Took
<1>5. Places'
  BY DEF card_data, driver, Places
<1>6. Capacity'
  BY DEF card_data, driver, Capacity
<1>7. Clocks'
  BY DEF card_data, driver, Clocks
<1>8. Usable'
  BY DEF card_data, driver, Usable, Agree
<1>9. Faultless'
  BY DEF card_data, driver, Faultless, Certain
<1>10. Cleared'
  BY DEF card_data, driver, Cleared
<1> QED  BY <1>1, <1>2, <1>3, <1>4, <1>5, <1>6, <1>7, <1>8, <1>9, <1>10

(* A step of nobody.                                                       *)
LEMMA StutterKeeps ==
  ASSUME SdInv, UNCHANGED vars
  PROVE  SdInv'
<1> USE DEF SdInv, Waits, Ends, Early, Selecting, Transfer, Addressed, Typed, AppSteps,
        Commands
<1>1. TypeOK'
  BY DEF vars, driver, bus, TypeOK
<1>2. Phases'
  BY DEF vars, driver, Phases
<1>3. OnTheBus'
  BY DEF vars, driver, bus, OnTheBus
<1>4. Genuine'
  BY DEF vars, driver, bus, Genuine, Took
<1>5. Places'
  BY DEF vars, driver, bus, Places
<1>6. Capacity'
  BY DEF vars, driver, bus, Capacity
<1>7. Clocks'
  BY DEF vars, driver, bus, Clocks
<1>8. Usable'
  BY DEF vars, driver, bus, Usable, Agree
<1>9. Faultless'
  BY DEF vars, driver, bus, Faultless, Certain
<1>10. Cleared'
  BY DEF vars, driver, bus, Cleared
<1> QED  BY <1>1, <1>2, <1>3, <1>4, <1>5, <1>6, <1>7, <1>8, <1>9, <1>10

-----------------------------------------------------------------------------
(* The card.                                                               *)

Cards == [state : CS, app : BOOLEAN, rca : {0} \cup Rca, width : {1, 4}]

(* What the card is after it has taken command c.                          *)
Effect(c, e) ==
  /\ e \in Cards
  /\ c = "GO_IDLE_STATE" => e.state = "idle" /\ e.width = 1
  /\ c # "GO_IDLE_STATE" =>
       /\ card.state \in TakenIn[c]
       /\ IF c = "SEND_REL_ADDR" THEN e.rca # 0 ELSE e.rca = card.rca
       /\ e.width = card.width \/ (c = "SET_BUS_WIDTH" /\ card.state = "tran")
       /\ c = "SET_BUS_WIDTH" /\ card.app => e.width = 4
       /\ c \in {"APP_CMD", "APP_CMD_RCA"} => e.app
       /\ CASE c = "APP_SEND_OP_COND" -> /\ e.state \in {card.state, "ready"}
                                         /\ kind.hc /\ arg # HCS => e.state = card.state
            [] c = "ALL_SEND_CID" -> e.state = "ident"
            [] c = "SEND_REL_ADDR" -> e.state = "stby"
            [] c = "CARD_SELECT" -> e.state = "tran"
            [] OTHER -> e.state = card.state

(* The card after a command it has taken.                                  *)
LEMMA AfterIs ==
  ASSUME TypeOK, NEW c \in Command, Taken(c), NEW e \in After(c)
  PROVE  Effect(c, e)
<1>0. card \in Cards /\ card.state \in TakenIn[c]
  BY DEF TypeOK, Cards, Taken
<1>1. CASE c = "GO_IDLE_STATE"
  <2>1. e = [state |-> "idle", app |-> FALSE, rca |-> 0, width |-> 1]
    BY <1>1 DEF After
  <2> QED  BY <1>1, <2>1 DEF Effect, Cards, CS
<1>2. CASE c \in {"APP_CMD", "APP_CMD_RCA"}
  <2>1. e = [card EXCEPT !.app = TRUE]
    BY <1>2 DEF After
  <2> QED  BY <1>0, <1>2, <2>1 DEF Effect, Cards
<1>3. CASE c = "APP_SEND_OP_COND"
  <2>1. PICK s \in Powers : e = [[card EXCEPT !.app = FALSE] EXCEPT !.state = s]
    BY <1>3 DEF After
  <2>2. s \in {card.state, "ready"} /\ s \in CS /\ (kind.hc /\ arg # HCS => s = card.state)
    BY <1>0 DEF Powers, Cards, CS
  <2> QED  BY <1>0, <1>3, <2>1, <2>2 DEF Effect, Cards
<1>4. CASE c = "ALL_SEND_CID"
  <2>1. e = [[card EXCEPT !.app = FALSE] EXCEPT !.state = "ident"]
    BY <1>4 DEF After
  <2> QED  BY <1>0, <1>4, <2>1 DEF Effect, Cards, CS
<1>5. CASE c = "SEND_REL_ADDR"
  <2>1. PICK r \in Rca : e = [[card EXCEPT !.app = FALSE] EXCEPT !.state = "stby", !.rca = r]
    BY <1>5 DEF After
  <2>2. r # 0
    BY InitAssumption
  <2> QED  BY <1>0, <1>5, <2>1, <2>2 DEF Effect, Cards, CS
<1>6. CASE c = "CARD_SELECT"
  <2>1. e = [[card EXCEPT !.app = FALSE] EXCEPT !.state = "tran"]
    BY <1>6 DEF After
  <2> QED  BY <1>0, <1>6, <2>1 DEF Effect, Cards, CS
<1>7. CASE c = "SET_BUS_WIDTH" /\ card.app
  <2>1. e = [[card EXCEPT !.app = FALSE] EXCEPT !.width = 4]
    BY <1>7 DEF After
  <2>2. card.state = "tran"
    BY <1>0, <1>7 DEF TakenIn
  <2> QED  BY <1>0, <1>7, <2>1, <2>2 DEF Effect, Cards
<1>8. CASE /\ c \notin {"GO_IDLE_STATE", "APP_CMD", "APP_CMD_RCA", "APP_SEND_OP_COND",
                        "ALL_SEND_CID", "SEND_REL_ADDR", "CARD_SELECT"}
           /\ ~(c = "SET_BUS_WIDTH" /\ card.app)
  <2>1. e = [card EXCEPT !.app = FALSE]
    BY <1>8 DEF After
  <2> QED  BY <1>0, <1>8, <2>1 DEF Effect, Cards
<1> QED  BY <1>1, <1>2, <1>3, <1>4, <1>5, <1>6, <1>7, <1>8

(* Where the card takes a command, spelled out.                            *)
LEMMA TakenInIs ==
  /\ \A c \in {"SEND_IF_COND", "APP_CMD", "APP_SEND_OP_COND"} : TakenIn[c] = {"idle"}
  /\ TakenIn["GO_IDLE_STATE"] = CS
  /\ TakenIn["ALL_SEND_CID"] = {"ready"}
  /\ TakenIn["SEND_REL_ADDR"] = {"ident", "stby"}
  /\ TakenIn["SEND_CSD"] = {"stby"} /\ TakenIn["CARD_SELECT"] = {"stby"}
  /\ TakenIn["APP_CMD_RCA"] = {"stby", "tran"}
  /\ \A c \in {"SET_BLOCKLEN", "READ_SINGLE", "SET_BUS_WIDTH", "SEND_SCR"} :
       TakenIn[c] = {"tran"}
BY TheCommands DEF TakenIn

(* The command on the bus, when the driver waits, is the one it has sent.  *)
LEMMA OnLine ==
  ASSUME SdInv, line # None
  PROVE  /\ line \in Command
         /\ ph \in Waits => line = sdCard.lastCmd /\ interrupt \cap Ends = {}
         /\ ph = "cmd_wait" => line = step
         /\ ph = "app_wait" => line = IF sdCard.rca = 0 THEN "APP_CMD" ELSE "APP_CMD_RCA"
         /\ step \in Typed => ph \in Waits
         /\ step \in Addressed => line \in {step, "APP_CMD_RCA"}
BY DEF SdInv, TypeOK, OnTheBus, Phases, Places, Waits, Typed, Addressed

(* The card always takes GO_IDLE_STATE.                                    *)
LEMMA GoesIdle ==
  ASSUME TypeOK, line = "GO_IDLE_STATE"
  PROVE  Taken(line)
BY TakenInIs, TheTable, TheCommands DEF Taken, TypeOK, AppSteps

(* From CARD_SELECT on the card takes every command, if nothing was lost.  *)
LEMMA SureToTake ==
  ASSUME SdInv, line # None, ~faulty, Certain
  PROVE  Taken(line)
<1> USE DEF SdInv
<1>1. ph \in Waits
  BY DEF Faultless
<1>2. line \in Command /\ (line = step \/ (line = "APP_CMD_RCA" /\ step \in Transfer))
  BY <1>1, OnLine
  DEF Certain, Usable, Phases, Waits, Addressed, Selecting, Transfer, AppSteps
<1>3. card.state \in TakenIn[line]
  BY <1>1, <1>2, OnLine, TakenInIs
  DEF Certain, Usable, Agree, Places, Phases, Transfer, Waits
<1>4. sdCommandTable[line].app => card.app
  BY <1>2, TheTable DEF Certain, Usable, Places, AppSteps, Transfer
<1>5. sdCommandTable[line].rca => arg = card.rca
  BY <1>1, <1>2, TheTable
  DEF OnTheBus, Certain, Usable, Places, Addressed, Selecting, Transfer
<1>6. line # "SEND_IF_COND"
  BY <1>2 DEF Certain, Usable, Transfer
<1> QED  BY <1>3, <1>4, <1>5, <1>6 DEF Taken

(* The card takes a command.                                               *)
LEMMA TakesKeeps ==
  ASSUME SdInv, card_takes
  PROVE  SdInv'
<1> USE DEF SdInv, Waits, Ends, Early, Selecting, Transfer, Addressed, Typed, AppSteps,
        Commands
<1>a. Effect(line, card')
  BY AfterIs, OnLine DEF card_takes
<1>1. TypeOK'
  <2>1. card' \in Cards
    BY <1>a DEF Effect, Cards, TypeOK
  <2>2. resp0' \in [of : Command \cup {None}, bad : BOOLEAN, rca : {0} \cup Rca,
                   app : BOOLEAN, complete : BOOLEAN, ccs : BOOLEAN, voltage : BOOLEAN]
    <3> DEFINE a == card.app \/ card'.app
               c == card'.state = "ready"
    <3>1. line \in Command /\ card'.rca \in {0} \cup Rca
      BY <2>1, OnLine DEF card_takes, Cards
    <3>2. a \in BOOLEAN /\ c \in BOOLEAN
      OBVIOUS
    <3>3. kind.hc \in BOOLEAN /\ kind.voltage \in BOOLEAN
      BY DEF TypeOK, Kind
    <3>4. resp0' = [of |-> line, bad |-> FALSE, rca |-> card'.rca, app |-> a,
                    complete |-> c, ccs |-> kind.hc, voltage |-> kind.voltage]
      BY DEF card_takes
    <3> HIDE DEF a, c
    <3> QED  BY <3>1, <3>2, <3>3, <3>4
  <2>3. interrupt' \subseteq {"CMD_DONE", "CMD_TIMEOUT", "ERR", "READ_RDY", "DATA_DONE"}
    BY DEF card_takes, Answered, TypeOK
  <2> QED  BY <2>1, <2>2, <2>3 DEF card_takes, Answered, driver, Cards, TypeOK
<1>2. Phases'
  BY <1>a DEF card_takes, Answered, driver, Phases
<1>3. OnTheBus'
  BY <1>a, NoneAssumption, TheCommands DEF card_takes, Answered, driver, OnTheBus
<1>4. Genuine'
  <2> SUFFICES ASSUME ph \in Waits, NEW c, c = line PROVE Took(c)'
    BY OnLine DEF Genuine, card_takes, Answered, driver
  <2>1. resp0'.rca = card'.rca /\ resp0'.app = (card.app \/ card'.app)
    BY DEF card_takes
  <2>2. line \in {"SEND_SCR", "SET_BUS_WIDTH"} => card.app
    BY DEF Places
  <2> QED  BY <1>a, <2>1, <2>2 DEF Took, Effect, Cards, TypeOK
<1>5. Places'
  BY <1>a, NoneAssumption, TheCommands, OnLine, TakenInIs
  DEF card_takes, Answered, driver, Effect, Places, TypeOK
<1>6. Capacity'
  BY <1>a DEF card_takes, Answered, driver, Effect, Capacity, TypeOK, OnTheBus
<1>7. Clocks'
  BY <1>a, NoneAssumption, TheCommands, TakenInIs
  DEF card_takes, Answered, driver, Effect, Clocks
<1>8. Usable'
  BY <1>a DEF card_takes, Answered, driver, Effect, Usable, Agree
<1>9. Faultless'
  BY <1>a, OnLine, TakenInIs DEF card_takes, Answered, driver, Effect, Faultless
<1>10. Cleared'
  BY <1>a, OnLine DEF card_takes, Answered, driver, Cleared, Faultless
<1> QED  BY <1>1, <1>2, <1>3, <1>4, <1>5, <1>6, <1>7, <1>8, <1>9, <1>10

(* The card ignores a command.                                             *)
LEMMA IgnoresKeeps ==
  ASSUME SdInv, card_ignores
  PROVE  SdInv'
<1> USE DEF SdInv, Waits, Ends, Early, Selecting, Transfer, Addressed, Typed, AppSteps,
        Commands
<1>a. card' \in Cards /\ card'.state = card.state /\ card'.rca = card.rca
      /\ card'.width = card.width
  BY DEF card_ignores, TypeOK, Cards
<1>1. TypeOK'
  BY <1>a DEF card_ignores, Answered, driver, Cards, TypeOK
<1>2. Phases'
  BY <1>a DEF card_ignores, Answered, driver, Phases
<1>3. OnTheBus'
  BY <1>a, NoneAssumption, TheCommands DEF card_ignores, Answered, driver, OnTheBus
<1>4. Genuine'
  BY <1>a, NoneAssumption, TheResponses
  DEF card_ignores, Answered, driver, Genuine, TypeOK, OnTheBus, Took
<1>5. Places'
  BY <1>a, NoneAssumption, TheCommands, OnLine
  DEF card_ignores, Answered, driver, Places
<1>6. Capacity'
  BY <1>a DEF card_ignores, Answered, driver, Capacity
<1>7. Clocks'
  BY <1>a, NoneAssumption, TheCommands DEF card_ignores, Answered, driver, Clocks
<1>8. Usable'
  BY <1>a DEF card_ignores, Answered, driver, Usable, Agree
<1>b. line # "GO_IDLE_STATE" /\ (~faulty => ~Certain)
  BY GoesIdle, SureToTake DEF card_ignores
<1>9. Faultless'
  BY <1>a, <1>b, OnLine, TheResponses
  DEF card_ignores, Answered, driver, Faultless, Certain, Places
<1>10. Cleared'
  BY <1>a, <1>b DEF card_ignores, Answered, driver, Cleared, Certain
<1> QED  BY <1>1, <1>2, <1>3, <1>4, <1>5, <1>6, <1>7, <1>8, <1>9, <1>10

(* A command or its answer is lost or damaged.                             *)
LEMMA LosesKeeps ==
  ASSUME SdInv, bus_loses
  PROVE  SdInv'
<1> USE DEF SdInv, Waits, Ends, Early, Selecting, Transfer, Addressed, Typed, AppSteps,
        Commands
<1>a. card' = card \/ Effect(line, card')
  BY AfterIs, OnLine DEF bus_loses
<1>b. PICK b \in BOOLEAN : resp0' = Lost(b)
  BY DEF bus_loses
<1>c. resp0' \in [of : Command \cup {None}, bad : BOOLEAN, rca : {0} \cup Rca,
                 app : BOOLEAN, complete : BOOLEAN, ccs : BOOLEAN, voltage : BOOLEAN]
      /\ resp0' = [resp0 EXCEPT !.of = line, !.bad = resp0'.bad]
  <2>1. line \in Command
    BY OnLine DEF bus_loses
  <2> QED  BY <1>b, <2>1 DEF TypeOK, Lost
<1>d. /\ resp0'.of = line /\ resp0'.complete = resp0.complete /\ resp0'.ccs = resp0.ccs
  BY <1>b DEF TypeOK, Lost
<1>1. TypeOK'
  <2>1. card' \in Cards
    BY <1>a DEF Effect, Cards, TypeOK
  <2>3. interrupt' \subseteq {"CMD_DONE", "CMD_TIMEOUT", "ERR", "READ_RDY", "DATA_DONE"}
    BY DEF bus_loses, Answered, TypeOK
  <2> QED  BY <1>c, <2>1, <2>3 DEF bus_loses, Answered, driver, Cards, TypeOK
<1>2. Phases'
  BY <1>a, <1>c, <1>d DEF bus_loses, Answered, driver, Phases
<1>3. OnTheBus'
  BY <1>a, <1>c, <1>d, NoneAssumption, TheCommands
  DEF bus_loses, Answered, driver, OnTheBus
<1>4. Genuine'
  BY <1>a, <1>c, <1>d, OnLine, TheResponses
  DEF bus_loses, Answered, driver, Genuine, TypeOK, Took
<1>5. Places'
  BY <1>a, <1>c, <1>d, NoneAssumption, TheCommands, OnLine, TakenInIs
  DEF bus_loses, Answered, driver, Effect, Places
<1>6. Capacity'
  BY <1>a, <1>c, <1>d DEF bus_loses, Answered, driver, Effect, Capacity, OnTheBus
<1>7. Clocks'
  BY <1>a, <1>c, <1>d, NoneAssumption, TheCommands, TakenInIs
  DEF bus_loses, Answered, driver, Effect, Clocks
<1>8. Usable'
  BY <1>a, <1>c, <1>d DEF bus_loses, Answered, driver, Effect, Usable, Agree
<1>9. Faultless'
  BY <1>a, <1>c, <1>d DEF bus_loses, Faultless
<1>10. Cleared'
  BY <1>a, <1>c, <1>d DEF bus_loses, Cleared
<1> QED  BY <1>1, <1>2, <1>3, <1>4, <1>5, <1>6, <1>7, <1>8, <1>9, <1>10

-----------------------------------------------------------------------------
(* SdInv holds at first.                                                   *)
LEMMA InitSdInv ==
  ASSUME Init
  PROVE  SdInv
<1>0. /\ step = "reset" /\ ph = "run" /\ old \in BOOLEAN /\ ~old /\ count = 6
      /\ result = None /\ clock = 0 /\ width = 1 /\ interrupt = {} /\ line = None
      /\ arg = 0 /\ dat = "none" /\ kind \in Kind /\ faulty \in BOOLEAN
  BY DEF Init
<1>1. TypeOK
  <2>1. sdCard \in Descriptor
    BY DEF Init, NoCard, Descriptor, Ocr
  <2>2. card \in Cards
    BY DEF Init, Cards, CS
  <2>3. resp0 \in [of : Command \cup {None}, bad : BOOLEAN, rca : {0} \cup Rca,
                  app : BOOLEAN, complete : BOOLEAN, ccs : BOOLEAN, voltage : BOOLEAN]
    BY DEF Init
  <2> QED  BY <1>0, <2>1, <2>2, <2>3, TheCommands DEF TypeOK, Descriptor, Cards
<1>2. ~sdCard.init /\ ~sdCard.ocr.complete /\ ~resp0.complete /\ ~resp0.bad
  BY DEF Init, NoCard
<1>3. card.state \in {"idle", "tran"} /\ (card.state # "tran" => card.width = 1)
  BY DEF Init
<1>4. Phases /\ OnTheBus /\ Genuine
  BY <1>0, NoneAssumption, TheCommands
  DEF Phases, OnTheBus, Genuine, Waits, Early, Selecting, Transfer, Addressed, Typed,
      Commands
<1>5. Places
  BY <1>0, <1>2, <1>3, NoneAssumption, TheCommands
  DEF Places, Early, Selecting, Transfer, Addressed, Typed
<1>6. Capacity /\ Clocks /\ Usable
  BY <1>0, <1>2, <1>3 DEF Capacity, Clocks, Usable, FREQ_NORMAL, FREQ_SETUP
<1>7. Faultless /\ Cleared
  BY <1>0, <1>2 DEF Faultless, Certain, Cleared, Transfer
<1> QED  BY <1>1, <1>4, <1>5, <1>6, <1>7 DEF SdInv

(* Every step keeps SdInv.                                                 *)
LEMMA NextSdInv ==
  ASSUME SdInv, [Next]_vars
  PROVE  SdInv'
<1>1. CASE Driver
  BY <1>1, SendKeeps, BusyKeeps, AnswerKeeps, TimeoutKeeps, ResetKeeps, SetClockKeeps,
     FailsKeeps, DataKeeps, ScrKeeps, ScrTimeoutKeeps, StartKeeps, FifoKeeps, DoneKeeps
  DEF Driver
<1>2. CASE Bus
  BY <1>2, TakesKeeps, IgnoresKeeps, LosesKeeps, CardDataKeeps DEF Bus
<1>3. CASE UNCHANGED vars
  BY <1>3, StutterKeeps
<1> QED  BY <1>1, <1>2, <1>3 DEF Next

(* SdInv is an invariant of sdInit and sd_init against every card, whatever *)
(* is lost or late.                                                         *)
THEOREM SdInvariant == Spec => []SdInv
BY InitSdInv, NextSdInv, PTL DEF Spec

(* The driver takes only the answer to its last command, sdSendCommandP's   *)
(* app commands reach only a card that has taken the APP_CMD, and sdSetClock *)
(* raises the clock only for a card that has an address.                    *)
THEOREM BusIsUsedProperly == Spec => []BusProtocol
<1>1. SdInv => BusProtocol
  BY NoneAssumption
  DEF SdInv, BusProtocol, AnswersOwn, AppUnderstood, ClockInRange, OnTheBus, Places,
      Clocks, Waits, Ends, FREQ_SETUP, FREQ_NORMAL, TypeOK
<1> QED  BY <1>1, SdInvariant, PTL

(* When sdInit sets sdCard.init, driver and card agree on address, block    *)
(* addressing and bus width, and they do for as long as sd_init goes on.    *)
THEOREM InitialisedIsUsable == Spec => []CardUsable
<1>1. SdInv => CardUsable
  BY DEF SdInv, CardUsable, Usable, Faultless, Phases
<1> QED  BY <1>1, SdInvariant, PTL

(* With a card that has the wide bus, and nothing lost or late, sd_start    *)
(* finds the interrupt register empty: the DATA_DONE sdReadSCR leaves       *)
(* behind has been cleared.                                                 *)
THEOREM StartDoesNotPanic == Spec => []NoPanic
<1>1. SdInv => NoPanic
  BY DEF SdInv, NoPanic, Cleared, TypeOK
<1> QED  BY <1>1, SdInvariant, PTL
=============================================================================
