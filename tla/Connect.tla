------------------------------- MODULE Connect -------------------------------
(***************************************************************************)
(* Connecting a board (ConnectFlow): make a credential, which invalidates   *)
(* the one on the board, choose how it gets Wi-Fi, flash it over USB from   *)
(* the browser (flasher.ts steps down BAUD_LADDER when the link drops),     *)
(* give it Wi-Fi from the phone (wifi.tsx), and watch it come alive.  The    *)
(* board and its bootloader are external: they do what the code relies on.   *)
(***************************************************************************)
EXTENDS Integers, Sequences, SequencesExt, FiniteSets

CONSTANTS
    Tests,              \* the actuators the live check tries
    ConnectQuestions    \* what happens, and how often

VARIABLES
    cred,       \* the credential the broker accepts
    asking,     \* rotate requests under way: the credential made, 0 before that
    flow,       \* useConnectFlow's state
    live,       \* the live check's lines, and the tests in the order first sent
    flash,      \* flashBoard: the attempt under way
    mount,      \* InstallStep: which instance is mounted, and what it shows
    goodBaud,   \* the rung that last worked on this port
    board,      \* what the board's flash holds: 0 torn, 1 as it was, 2 new or blank
    wifi,       \* the phone's Wi-Fi setup screen
    acks,       \* commands the board has yet to answer, and answers that came
    elsewhere,  \* the credential was rotated in another tab
    connectBudget

connectVars == <<cred, asking, flow, live, flash, mount, goodBaud, board, wifi, acks,
                 elsewhere, connectBudget>>

SpendConnect(k) == connectBudget[k] > 0 /\ connectBudget' = [connectBudget EXCEPT ![k] = @ - 1]

Rungs == 1..3                       \* BAUD_LADDER
Flashing == flash.stage # "none"
Resting == [stage |-> "none", mode |-> "full", rung |-> 1, cfg |-> 0, typed |-> FALSE,
            file |-> 0, by |-> 0, next |-> 0]

-----------------------------------------------------------------------------
(* The wizard *)

Here == ~flow.left

(* Rotate credential, confirmed; offered only while none is held. *)
Rotate ==
    /\ Here /\ flow.step = 1 /\ flow.have = 0 /\ asking = << >> /\ SpendConnect("rotate")
    /\ asking' = Append(asking, 0)
    /\ UNCHANGED <<cred, flow, live, flash, mount, goodBaud, board, wifi, acks, elsewhere>>

(* The API makes a credential; the old one stops working. *)
RotateRuns(i) ==
    /\ asking[i] = 0
    /\ cred' = cred + 1
    /\ asking' = [asking EXCEPT ![i] = cred + 1]
    /\ UNCHANGED <<flow, live, flash, mount, goodBaud, board, wifi, acks, elsewhere, connectBudget>>

RotateAnswers(i) ==
    /\ asking[i] # 0
    /\ asking' = RemoveAt(asking, i)
    /\ flow' = IF Here THEN [flow EXCEPT !.have = asking[i], !.stored = FALSE] ELSE flow
    /\ UNCHANGED <<cred, live, flash, mount, goodBaud, board, wifi, acks, elsewhere, connectBudget>>

(* The request, or only its answer, is lost. *)
RotateFails(i) ==
    /\ SpendConnect("lost")
    /\ asking' = RemoveAt(asking, i)
    /\ UNCHANGED <<cred, flow, live, flash, mount, goodBaud, board, wifi, acks, elsewhere>>

RotateElsewhere ==
    /\ SpendConnect("elsewhere")
    /\ cred' = cred + 1 /\ elsewhere' = TRUE
    /\ UNCHANGED <<asking, flow, live, flash, mount, goodBaud, board, wifi, acks>>

(* Steps: Back, Continue, the stepper (free once the password is stored), and *)
(* leaving, which asks first while it is not.  InstallStep lives on step 3.    *)
CanGo(n) ==
    \/ n = 1
    \/ flow.stored /\ (n = 4 => flow.phone)
    \/ n = 2 /\ flow.step = 1 /\ flow.have # 0

Forward == IF flow.step = 3 /\ ~flow.phone THEN 5 ELSE flow.step + 1

Go(n) ==
    /\ Here /\ n # flow.step /\ CanGo(n)
    /\ flow.step = 2 /\ n = 3 => flow.phone \/ flow.ssid
    /\ flow' = [flow EXCEPT !.step = n, !.stored = @ \/ (flow.step = 1 /\ n = 2)]
    /\ mount' = IF n = 3 THEN [id |-> mount.id + 1, busy |-> FALSE, shows |-> "none"] ELSE mount
    /\ IF n = Forward THEN UNCHANGED connectBudget ELSE SpendConnect("walk")
    /\ UNCHANGED <<cred, asking, live, flash, goodBaud, board, wifi, acks, elsewhere>>

Option ==
    /\ Here /\ flow.step = 2 /\ SpendConnect("option")
    /\ \/ flow' = [flow EXCEPT !.phone = ~@]
       \/ ~flow.phone /\ flow' = [flow EXCEPT !.ssid = ~@]
    /\ UNCHANGED <<cred, asking, live, flash, mount, goodBaud, board, wifi, acks, elsewhere>>

Leave ==
    /\ Here /\ SpendConnect("walk")
    /\ flow' = [flow EXCEPT !.left = TRUE, !.have = 0, !.stored = FALSE]
    /\ UNCHANGED <<cred, asking, live, flash, mount, goodBaud, board, wifi, acks, elsewhere>>

-----------------------------------------------------------------------------
(* Flashing *)

(* What is written, in order. *)
flashFiles(mode) ==
    (IF mode = "full" THEN <<"boot", "app", "nvs">> ELSE << >>) \o <<"cfg">>

Written(f) == IF f = "cfg" THEN flash.cfg ELSE 2
Config == flow.have # 0 /\ (flow.phone \/ flow.ssid)

(* Install or Update config only: the config is the one of this click.  A    *)
(* board being flashed by an InstallStep left behind has its port busy.       *)
Install(mode) ==
    /\ Here /\ flow.step = 3 /\ Config /\ ~mount.busy /\ SpendConnect("install")
    /\ IF Flashing
       THEN /\ mount' = [mount EXCEPT !.shows = "error"]
            /\ UNCHANGED flash
       ELSE /\ flash' = [stage |-> "connecting", mode |-> mode, rung |-> goodBaud, cfg |-> flow.have,
                         typed |-> ~flow.phone, file |-> 0, by |-> mount.id,
                         next |-> IF flow.phone THEN 4 ELSE 5]
            /\ mount' = [mount EXCEPT !.busy = TRUE, !.shows = "none"]
    /\ UNCHANGED <<cred, asking, flow, live, goodBaud, board, wifi, acks, elsewhere>>

(* The bootloader answers (the board leaves its program: a phone's session    *)
(* ends) and is the chip that was picked; the parts are downloaded once.       *)
Synced ==
    /\ flash.stage = "connecting"
    /\ flash' = [flash EXCEPT !.stage = "downloading"]
    /\ wifi' = [wifi EXCEPT !.session = FALSE]
    /\ UNCHANGED <<cred, asking, flow, live, mount, goodBaud, board, acks, elsewhere, connectBudget>>

(* writeFlash erases the next file's place, reports, and finishes it. *)
WriteBegins ==
    /\ \/ flash.stage = "downloading" /\ flash.file = 0
       \/ flash.stage = "writing" /\ flash.file < Len(flashFiles(flash.mode))
          /\ board[flashFiles(flash.mode)[flash.file]] # 0
    /\ flash' = [flash EXCEPT !.file = @ + 1]
    /\ board' = [board EXCEPT ![flashFiles(flash.mode)[flash.file + 1]] = 0]
    /\ UNCHANGED <<cred, asking, flow, live, mount, goodBaud, wifi, acks, elsewhere, connectBudget>>

WriteEnds ==
    /\ flash.file > 0 /\ flash.stage \in {"downloading", "writing"}
    /\ LET f == flashFiles(flash.mode)[flash.file]
       IN  /\ board[f] = 0
           /\ board' = [board EXCEPT ![f] = Written(f),
                                     !["typed"] = IF f = "cfg" THEN IF flash.typed THEN 1 ELSE 0 ELSE @]
    /\ flash' = [flash EXCEPT !.stage = "writing"]
    /\ UNCHANGED <<cred, asking, flow, live, mount, goodBaud, wifi, acks, elsewhere, connectBudget>>

AllWritten ==
    /\ flash.stage = "writing" /\ flash.file = Len(flashFiles(flash.mode))
    /\ board[flashFiles(flash.mode)[flash.file]] # 0
    /\ flash' = [flash EXCEPT !.stage = "restarting"]
    /\ UNCHANGED <<cred, asking, flow, live, mount, goodBaud, board, wifi, acks, elsewhere, connectBudget>>

Outcome(what) ==
    mount' = IF mount.id = flash.by /\ flow.step = 3
             THEN [mount EXCEPT !.busy = FALSE, !.shows = what] ELSE mount

(* Restarted: the speed is remembered and, after a full install, the wizard    *)
(* goes on to where the click meant to go.                                      *)
Restarts ==
    /\ flash.stage = "restarting"
    /\ flash' = Resting /\ goodBaud' = flash.rung
    /\ Outcome(flash.mode)
    /\ flow' = IF Here /\ flash.mode = "full" THEN [flow EXCEPT !.step = flash.next] ELSE flow
    /\ UNCHANGED <<cred, asking, live, board, wifi, acks, elsewhere, connectBudget>>

(* The next slower speed, 0 at the bottom of the ladder. *)
nextSlower(rung) == IF rung = 3 THEN 0 ELSE rung + 1

(* After a failure: dropped once it had answered, or in mid transfer (a       *)
(* device that is lost altogether is retried only while connecting).           *)
nextAttempt(stage, synced, lost) ==
    IF (stage = "connecting" /\ synced) \/ (stage = "writing" /\ ~lost)
    THEN nextSlower(flash.rung) ELSE 0

\* Mutant: a retry goes on with the file after the one that dropped.
Again_Resume(rung) ==
    flash' = [flash EXCEPT !.rung = rung, !.stage = IF @ = "writing" THEN "writing" ELSE "connecting",
                           !.file = IF flash.stage = "writing" /\ @ < Len(flashFiles(flash.mode)) THEN @ + 1 ELSE @]

(* Another attempt, from the start. *)
Again(rung) == flash' = [flash EXCEPT !.rung = rung, !.stage = "connecting", !.file = 0]

(* The link fails: before the board answers, after, in mid file, on restart;   *)
(* or the download fails, or the wrong board answers (stage "connecting").      *)
LinkFails(synced, lost) ==
    /\ Flashing /\ SpendConnect("drop")
    /\ flash.stage # "connecting" => synced
    /\ LET next == nextAttempt(flash.stage, synced, lost)
       IN  IF next # 0
           THEN Again(next) /\ UNCHANGED mount
           ELSE flash' = Resting /\ Outcome("error")
    /\ wifi' = IF synced THEN [wifi EXCEPT !.session = FALSE] ELSE wifi
    /\ UNCHANGED <<cred, asking, flow, live, goodBaud, board, acks, elsewhere>>

WrongBoard ==
    /\ flash.stage = "connecting" /\ SpendConnect("drop")
    /\ flash' = Resting /\ Outcome("error")
    /\ UNCHANGED <<cred, asking, flow, live, goodBaud, board, wifi, acks, elsewhere>>

-----------------------------------------------------------------------------
(* The phone's Wi-Fi setup *)

Phase(p) == wifi' = [wifi EXCEPT !.phase = p]
Shows(p) == wifi.here /\ wifi.phase = p
PhoneOnly == UNCHANGED <<cred, asking, flow, live, flash, mount, goodBaud, acks, elsewhere>>

(* The QR on step 4 is scanned; connect() asks for permission first. *)
ScanQr ==
    /\ Here /\ flow.step = 4 /\ flow.phone /\ flow.have # 0
    /\ ~wifi.here /\ wifi.phase = "off" /\ SpendConnect("wifi")
    /\ wifi' = [phase |-> "permission", at |-> "none", qr |-> flow.have, session |-> wifi.session,
                here |-> TRUE]
    /\ PhoneOnly /\ UNCHANGED board

PermissionAnswers ==
    /\ wifi.phase = "permission"
    /\ \/ Phase("connect")
       \/ wifi' = [wifi EXCEPT !.phase = "failed", !.at = "permission"]
    /\ PhoneOnly /\ UNCHANGED <<board, connectBudget>>

(* The board answers only while it waits for Wi-Fi, to the code it was         *)
(* flashed with.  The screen may have been left meanwhile.                      *)
BoardWaits == ~Flashing /\ board.nvs = 2 /\ board.typed = 0 /\ \A f \in {"boot", "app", "cfg"} : board[f] # 0

ConnectAnswers ==
    /\ wifi.phase = "connect"
    /\ \/ BoardWaits /\ wifi.qr = board.cfg /\ wifi' = [wifi EXCEPT !.phase = "scan", !.session = TRUE]
       \/ wifi' = [wifi EXCEPT !.phase = "failed", !.at = "connect"]
    /\ PhoneOnly /\ UNCHANGED <<board, connectBudget>>

\* Mutant: a failed scan is not caught.
ScanAnswers_Uncaught ==
    /\ wifi.phase = "scan" /\ wifi.session /\ Phase("networks")
    /\ PhoneOnly /\ UNCHANGED <<board, connectBudget>>

ScanAnswers ==
    /\ wifi.phase = "scan"
    /\ \/ wifi.session /\ Phase("networks")
       \/ wifi' = [wifi EXCEPT !.phase = "failed", !.at = "scan"]
    /\ PhoneOnly /\ UNCHANGED <<board, connectBudget>>

(* A network, another one, or the same list again; then its password. *)
PickNetwork == Shows("networks") /\ SpendConnect("wifi") /\ Phase("password") /\ PhoneOnly /\ UNCHANGED board
Rescan      == Shows("networks") /\ SpendConnect("wifi") /\ Phase("scan") /\ PhoneOnly /\ UNCHANGED board
OtherNetwork == Shows("password") /\ SpendConnect("wifi") /\ Phase("networks") /\ PhoneOnly /\ UNCHANGED board
Send        == Shows("password") /\ SpendConnect("wifi") /\ Phase("provision") /\ PhoneOnly /\ UNCHANGED board

ProvisionAnswers ==
    /\ wifi.phase = "provision"
    /\ \/ wifi.session /\ Phase("joined") /\ board' = [board EXCEPT !.nvs = 3]
       \/ wifi' = [wifi EXCEPT !.phase = "failed", !.at = "provision"] /\ UNCHANGED board
    /\ PhoneOnly /\ UNCHANGED connectBudget

(* Try again: from the start, from the list, or from the password. *)
Retry ==
    /\ Shows("failed") /\ SpendConnect("wifi")
    /\ wifi' = [wifi EXCEPT !.at = "none",
                            !.phase = CASE @ = "failed" /\ wifi.at = "scan" -> "scan"
                                        [] @ = "failed" /\ wifi.at = "provision" -> "password"
                                        [] OTHER -> "permission",
                            !.session = @ /\ wifi.at \in {"scan", "provision"}]
    /\ PhoneOnly /\ UNCHANGED board

(* Leaving disconnects the board, if it is connected, and forgets the QR. *)
LeaveWifi ==
    /\ wifi.here
    /\ wifi' = [wifi EXCEPT !.here = FALSE, !.session = FALSE,
                            !.phase = IF @ \in {"permission", "connect", "scan", "provision"} THEN @ ELSE "off"]
    /\ PhoneOnly /\ UNCHANGED <<board, connectBudget>>

(* What was awaited when the screen was left ends unseen. *)
Unseen ==
    /\ ~wifi.here /\ wifi.phase \in {"networks", "joined", "failed"}
    /\ wifi' = [wifi EXCEPT !.phase = "off", !.at = "none"]
    /\ PhoneOnly /\ UNCHANGED <<board, connectBudget>>

-----------------------------------------------------------------------------
(* The live check *)

Online ==
    /\ ~Flashing /\ board.cfg = cred /\ \A f \in {"boot", "app"} : board[f] # 0
    /\ board.nvs \in {1, 3} \/ board.typed = 1

BoardReports(reading) ==
    /\ Here /\ Online /\ SpendConnect("report")
    /\ live' = [live EXCEPT !.status = TRUE, !.reading = @ \/ reading]
    /\ UNCHANGED <<cred, asking, flow, flash, mount, goodBaud, board, wifi, acks, elsewhere>>

SendTest(a) ==
    /\ Here /\ flow.step = 5 /\ live.status /\ live.test[a] = "wait" /\ SpendConnect("test")
    /\ live' = [live EXCEPT !.test[a] = "busy",
                            !.order = IF a \in ToSet(@) THEN @ ELSE Append(@, a)]
    /\ acks' = [acks EXCEPT !.due = IF Online THEN @ + 1 ELSE @]
    /\ UNCHANGED <<cred, asking, flow, flash, mount, goodBaud, board, wifi, elsewhere>>

TestFails(a) ==
    /\ Here /\ live.test[a] = "busy" /\ SpendConnect("lost")
    /\ live' = [live EXCEPT !.test[a] = "wait"]
    /\ UNCHANGED <<cred, asking, flow, flash, mount, goodBaud, board, wifi, acks, elsewhere>>

Busy == SelectSeq(live.order, LAMBDA a : live.test[a] = "busy")

(* An answer names no actuator: it goes to the first test that waits. *)
Acknowledge ==
    live' = IF Busy = << >> THEN live ELSE [live EXCEPT !.test[Busy[1]] = "ok"]

AckArrives ==
    /\ acks.due > 0
    /\ acks' = [due |-> acks.due - 1, came |-> acks.came + 1]
    /\ IF Here THEN Acknowledge ELSE UNCHANGED live
    /\ UNCHANGED <<cred, asking, flow, flash, mount, goodBaud, board, wifi, elsewhere, connectBudget>>

-----------------------------------------------------------------------------
Oldest == [k \in {"boot", "app", "nvs", "cfg"} |-> 1] @@ [typed |-> 0]
Outside == [phase |-> "off", at |-> "none", qr |-> 0, session |-> FALSE, here |-> FALSE]

ConnectInit ==
    /\ cred = 1 /\ asking = << >> /\ elsewhere = FALSE
    /\ flow = [step |-> 1, have |-> 0, stored |-> FALSE, phone |-> TRUE, ssid |-> FALSE, left |-> FALSE]
    /\ live = [status |-> FALSE, reading |-> FALSE, test |-> [a \in Tests |-> "wait"], order |-> << >>]
    /\ flash = Resting /\ mount = [id |-> 0, busy |-> FALSE, shows |-> "none"]
    /\ goodBaud = 1 /\ board = Oldest /\ wifi = Outside
    /\ acks = [due |-> 0, came |-> 0]
    /\ connectBudget \in ConnectQuestions

Answering == \E i \in DOMAIN asking : RotateRuns(i) \/ RotateAnswers(i)
Progress == Synced \/ WriteBegins \/ WriteEnds \/ AllWritten \/ Restarts
PhoneAnswers == PermissionAnswers \/ ConnectAnswers \/ ScanAnswers \/ ProvisionAnswers

ConnectNext ==
    \/ Rotate \/ RotateElsewhere \/ Option \/ Leave \/ Answering
    \/ \E i \in DOMAIN asking : RotateFails(i)
    \/ \E n \in 1..5 : Go(n)
    \/ \E mode \in {"full", "config"} : Install(mode)
    \/ Progress \/ WrongBoard
    \/ \E synced, lost \in BOOLEAN : LinkFails(synced, lost)
    \/ ScanQr \/ PhoneAnswers \/ PickNetwork \/ Rescan \/ OtherNetwork \/ Send \/ Retry
    \/ LeaveWifi \/ Unseen
    \/ \E r \in BOOLEAN : BoardReports(r)
    \/ \E a \in Tests : SendTest(a) \/ TestFails(a)
    \/ AckArrives

(* esptool's calls and the phone's Bluetooth calls settle. *)
ConnectFairness == WF_connectVars(Progress) /\ WF_connectVars(PhoneAnswers)
ConnectSpec == ConnectInit /\ [][ConnectNext]_connectVars /\ ConnectFairness

-----------------------------------------------------------------------------
ConnectTypeOK ==
    /\ cred \in 1..5 /\ \A i \in DOMAIN asking : asking[i] \in 0..5
    /\ flow.step \in 1..5 /\ flow.have \in 0..5
    /\ flash.stage \in {"none", "connecting", "downloading", "writing", "restarting"}
    /\ flash.rung \in Rungs /\ goodBaud \in Rungs
    /\ mount.shows \in {"none", "error", "full", "config"}
    /\ \A a \in Tests : live.test[a] \in {"wait", "busy", "ok"}
    /\ wifi.phase \in {"off", "permission", "connect", "scan", "networks", "password", "provision",
                       "joined", "failed"}

(* flashBoard, however often the link dropped and at whatever speed it ended:  *)
(* a full install that says it is done left every part whole, the saved Wi-Fi   *)
(* blank (until the phone gives one) and the config of the click.                *)
InstalledWhole ==
    flash.stage = "restarting" =>
        /\ \A f \in ToSet(flashFiles(flash.mode)) : board[f] = Written(f)
        /\ flash.mode = "full" => board.boot = 2 /\ board.app = 2 /\ board.nvs = 2
        /\ board.cfg = flash.cfg

(* "Update config only ... keeps its Wi-Fi" (InstallStep.tsx): no step of a      *)
(* config-only run, once the bootloader answered, touches the firmware or the      *)
(* saved Wi-Fi.                                                                    *)
ConfigKeepsWifiStep ==
    flash.stage \in {"downloading", "writing", "restarting"} /\ flash.mode = "config"
      => board'.boot = board.boot /\ board'.app = board.app /\ board'.nvs = board.nvs

(* The credential the wizard holds, and so the one it flashes, is the one the    *)
(* broker accepts, unless another tab rotated it: also after lost answers.        *)
HeldCredentialWorks ==
    ~elsewhere => /\ flow.have # 0 => flow.have = cred
                  /\ flash.stage = "restarting" /\ Here => board.cfg = cred

(* LiveCheckStep's green lines: no more tests are acknowledged than answers       *)
(* came, so "every actuator answered" needs an answer for each.                    *)
AnswersCounted ==
    Cardinality({a \in Tests : live.test[a] = "ok"}) <= acks.came

(* What must end: an install, done or with an error, however often the link       *)
(* drops; and every await of the phone's screen, also when the board was reset     *)
(* in between.                                                                     *)
WizardWaits == Flashing \/ wifi.phase \in {"permission", "connect", "scan", "provision"}
=============================================================================
