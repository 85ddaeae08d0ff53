------------------------------- MODULE Sketch -------------------------------
(***************************************************************************)
(* The program a board runs when its owner takes the generated sketch      *)
(* (buildSketch, firmware-sketch.ts): setup() and loop(), with one metric  *)
(* and one actuator, against the broker, a network that comes and goes and *)
(* a reset button.                                                         *)
(*                                                                         *)
(* A step of the board is one pass of the loop it is in (loop itself,      *)
(* connectMqtt or connectWifi) with the delay() that ends it. Time is the  *)
(* board's millis(): it counts modulo Wrap (2^32 ms in the board) and only *)
(* the differences the code computes are compared with its intervals.      *)
(***************************************************************************)
EXTENDS Integers, Sequences

CONSTANTS
    Wrap,             \* millis() wraps around here
    SketchQuestions   \* what happens: [phone, isBool, clock, first profile, levels, budget]

VARIABLES
    phone,      \* Wi-Fi from a phone, or typed into the sketch
    isBool,     \* the metric is a bool, debounced
    at,         \* "loop", "rest" (of loop), "mqtt" (connectMqtt), "wifi" (connectWifi)
    clock,      \* millis()
    wifi, saved_wifi, \* WiFi.status() = WL_CONNECTED; a network in flash
    sock,       \* "down", "up", or "dead": gone, and the board has not noticed
    accepted,   \* the broker takes this credential
    level,      \* what readMetric returns, None for NAN
    m,          \* the MetricProfile
    lastStatusMs,
    button, resetDownSince,
    out,        \* the output, None before the first command or state
    inbox,      \* messages on their way to the board
    topics,     \* the broker's retained [status, config, state]
    willDue,    \* a session ended without goodbye and its will is not out yet
    platform,   \* the last reading that reached the platform
    \* What the properties measure, in passes: since anything changed, since a reading arrived,
    \* since the button went down; the last reading recorded as sent went into a dead connection; the board
    \* was in connectMqtt with the button down, or just released, and has not seen it up since.
    calm, sinceReading, held, lost, blind,
    budgetLeft

boardVars == <<phone, isBool, at, clock, wifi, saved_wifi, sock, level, m, lastStatusMs, button,
               resetDownSince, out>>
brokerVars == <<accepted, inbox, topics, willDue, platform>>
ghostVars == <<calm, sinceReading, held, lost, blind>>
sketchVars == <<boardVars, brokerVars, ghostVars, budgetLeft>>

None == -1
Cap == 7                \* the measures stop counting here
Patience == 2           \* an outage, a dead socket and a will last this many passes at most

\* The sketch's intervals, in passes of loop().
STATUS_INTERVAL == 3
RESET_HOLD == 3
BOOL_DEBOUNCE == 2
ON_CHANGE_MIN_GAP == 1

(* A profile as the platform sends it: interval 0 is none given; one that  *)
(* does not fit in PubSubClient's buffer is dropped unread.                *)
ConfigOf(publish, interval, deadband, fits) ==
    [publish |-> publish, interval |-> interval, deadband |-> deadband, fits |-> fits]

Profile == [publish : {"periodic", "on_change", "streaming"}, interval : Nat, deadband : Nat, fits : BOOLEAN]

ASSUME SketchAssumption ==
    /\ Wrap \in Nat /\ Wrap >= 6    \* the intervals below are far shorter than a wrap
    /\ \A q \in SketchQuestions :
         {q.phone, q.isBool} \subseteq BOOLEAN /\ q.clock \in 0 .. (Wrap - 1) /\ q.config \in Profile

defaultInterval(mode) ==
    CASE mode = "on_change" -> 3 [] mode = "streaming" -> 1 [] OTHER -> 2

applyConfig(p, c) ==
    [p EXCEPT !.mode = c.publish,
              !.every = IF c.interval > 0 THEN c.interval ELSE defaultInterval(c.publish),
              !.deadband = c.deadband]

(* A MetricProfile as the sketch declares it, with the profile its         *)
(* template had when the sketch was made.                                  *)
MetricRow(c) ==
    applyConfig([declared |-> c, mode |-> "periodic", every |-> 0, deadband |-> 0, lastValue |-> None,
                 lastPublish |-> 0, candidate |-> None, candidateSince |-> 0], c)

(* Unsigned subtraction.                                                   *)
Since(t) == (clock - t) % Wrap

More(x) == IF x < Cap THEN x + 1 ELSE Cap
Distance(a, b) == IF a > b THEN a - b ELSE b - a

-----------------------------------------------------------------------------
(* One pass of publishMetrics. *)

(* A level that just changed becomes the candidate.                        *)
Candidate ==
    IF isBool /\ level # m.candidate
    THEN [m EXCEPT !.candidate = level, !.candidateSince = clock] ELSE m
Debounced == isBool => Since(Candidate.candidateSince) >= BOOL_DEBOUNCE

Due ==
    \/ m.lastValue = None
    \/ Since(m.lastPublish) >= m.every
    \/ /\ m.mode = "on_change"
       /\ IF isBool THEN level # m.lastValue ELSE Distance(level, m.lastValue) > m.deadband
       /\ Since(m.lastPublish) >= ON_CHANGE_MIN_GAP

(* "Only record success, so a failed publish is retried next loop."        *)
Recorded(p, ok) == IF ok THEN [p EXCEPT !.lastValue = level, !.lastPublish = clock] ELSE p

(* ok is what publish returns: a dead connection takes the bytes, or is    *)
(* found out.                                                              *)
publishMetrics(ok) ==
    LET sends == level # None /\ Debounced /\ Due
    IN  /\ m' = IF level = None THEN m ELSE IF sends THEN Recorded(Candidate, ok) ELSE Candidate
        /\ platform' = IF sends /\ sock = "up" THEN level ELSE platform
        /\ sinceReading' = IF sends /\ sock = "up" THEN 0 ELSE More(sinceReading)
        /\ lost' = IF sends /\ ok THEN sock # "up" ELSE lost

-----------------------------------------------------------------------------
(* Whether it went out is not asked.                                       *)
publishStatus ==
    /\ topics' = IF sock' = "up" THEN [topics EXCEPT !.status = "online"] ELSE topics
    /\ lastStatusMs' = clock

StatusDue == Since(lastStatusMs) >= STATUS_INTERVAL

SketchInit ==
    \E q \in SketchQuestions :
        /\ phone = q.phone
        /\ isBool = q.isBool
        /\ at = IF q.phone THEN "loop" ELSE "wifi"
        /\ clock = q.clock
        /\ wifi = FALSE /\ saved_wifi = TRUE
        /\ sock = "down"
        /\ accepted = TRUE
        /\ level = 0
        /\ m = MetricRow(q.config)
        /\ lastStatusMs = 0
        /\ button = FALSE /\ resetDownSince = 0
        /\ out = None
        /\ inbox = <<>>
        /\ topics = [status |-> "none", config |-> q.config, state |-> None]
        /\ willDue = FALSE
        /\ platform = None
        /\ calm = 0 /\ sinceReading = Cap /\ held = 0 /\ lost = FALSE /\ blind = FALSE
        /\ budgetLeft = q.budget

-----------------------------------------------------------------------------
(* The board's steps. *)

(* watchProvisioningReset: since when the button is down, 0 when it is up. *)
DownSince == IF ~button THEN 0 ELSE IF resetDownSince = 0 THEN clock ELSE resetDownSince
Watches == resetDownSince' = DownSince /\ blind' = (blind /\ button)

HeldDown == phone /\ button /\ Since(DownSince) >= RESET_HOLD

(* The delay() that ends a pass. The keepalives at both ends bound a dead  *)
(* socket and a will; that an outage ends is a bound of the model.         *)
Passes(n) ==
    /\ button \/ calm < Patience \/ (wifi /\ sock = "up" /\ ~willDue)
    /\ clock' = (clock + n) % Wrap
    /\ held' = IF ~button THEN 0 ELSE IF held + n < Cap THEN held + n ELSE Cap

(* The button was held: the network is erased and the board restarts.      *)
Restart ==
    /\ at \in {"loop", "wifi"} /\ HeldDown
    /\ saved_wifi' = FALSE /\ wifi' = FALSE
    /\ at' = "loop" /\ clock' = 0
    /\ willDue' = (willDue \/ sock = "up")
    /\ sock' = "down"
    /\ inbox' = <<>>
    /\ m' = MetricRow(m.declared)
    /\ lastStatusMs' = 0 /\ resetDownSince' = 0 /\ out' = None
    /\ calm' = 0 /\ held' = 0 /\ blind' = FALSE
    /\ UNCHANGED <<phone, isBool, level, button, accepted, topics, platform, sinceReading, lost,
                   budgetLeft>>

(* loop() with the Wi-Fi down: wait for it. A typed-in sketch goes on to   *)
(* connectMqtt.                                                            *)
LoopWaits ==
    /\ at = "loop" /\ phone /\ ~HeldDown /\ ~wifi
    /\ Watches
    /\ Passes(1)
    /\ calm' = More(calm)
    /\ sinceReading' = More(sinceReading)
    /\ UNCHANGED <<phone, isBool, at, wifi, saved_wifi, sock, level, m, lastStatusMs, button, out, brokerVars,
                   lost, budgetLeft>>

(* if (!mqttClient.connected()) connectMqtt()                              *)
LoopConnects ==
    /\ at = "loop" /\ ~HeldDown /\ (wifi \/ ~phone) /\ sock = "down"
    /\ resetDownSince' = IF phone THEN DownSince ELSE 0
    /\ at' = "mqtt"
    /\ blind' = (button /\ phone)
    /\ UNCHANGED <<phone, isBool, clock, wifi, saved_wifi, sock, level, m, lastStatusMs, button, out, brokerVars,
                   calm, sinceReading, held, lost, budgetLeft>>

(* The pass itself: after what mqttClient.loop() handed over (Receive),    *)
(* publishMetrics() and the status.                                        *)
Arrives == sock = "up" /\ inbox # <<>>
LoopPass ==
    /\ \/ at = "loop" /\ ~HeldDown /\ (wifi \/ ~phone)
       \/ at = "rest"
    /\ sock # "down" /\ ~Arrives
    /\ at' = "loop"
    /\ IF at = "loop" /\ phone THEN Watches ELSE UNCHANGED <<resetDownSince, blind>>
    /\ \E ok \in BOOLEAN :
        /\ sock = "up" => ok
        /\ sock' = IF ok THEN sock ELSE "down"
        /\ publishMetrics(ok)
        /\ IF StatusDue THEN publishStatus ELSE UNCHANGED <<topics, lastStatusMs>>
    /\ Passes(1)
    /\ calm' = More(calm)
    /\ UNCHANGED <<phone, isBool, wifi, saved_wifi, level, button, out, accepted, inbox, willDue,
                   budgetLeft>>

(* mqttClient.loop() hands a message to mqttCallback first. What becomes   *)
(* of the acknowledgement of a command is in Commands.                     *)
Receive ==
    /\ at \in {"loop", "rest"} /\ Arrives
    /\ LET x == Head(inbox) IN
        /\ m' = IF x.topic = "config" /\ x.body.fits THEN applyConfig(m, x.body) ELSE m
        /\ out' = IF x.topic \in {"cmd", "state"} THEN x.body ELSE out
    /\ inbox' = Tail(inbox)
    /\ calm' = 0
    /\ UNCHANGED <<phone, isBool, at, clock, wifi, saved_wifi, sock, level, lastStatusMs, button,
                   resetDownSince, accepted, topics, willDue, platform, sinceReading, held, lost,
                   blind, budgetLeft>>

(* Mutant of Subscribed: only the first connection subscribes to config.   *)
SubscribedOnce ==
    (IF topics.status = "none" THEN <<[topic |-> "config", body |-> topics.config]>> ELSE <<>>)
      \o IF topics.state = None THEN <<>> ELSE <<[topic |-> "state", body |-> topics.state]>>

(* What the broker sends on subscribing: the retained messages.            *)
Subscribed ==
    <<[topic |-> "config", body |-> topics.config]>>
      \o IF topics.state = None THEN <<>> ELSE <<[topic |-> "state", body |-> topics.state]>>

(* connectMqtt, one turn of its loop. It looks at the button only inside   *)
(* connectWifi.                                                            *)
MqttConnects ==
    /\ at = "mqtt" /\ wifi /\ accepted
    /\ at' = "rest"
    /\ sock' = "up"
    /\ publishStatus
    /\ inbox' = Subscribed
    /\ calm' = 0
    /\ UNCHANGED <<phone, isBool, clock, wifi, saved_wifi, level, m, button, resetDownSince, out, accepted,
                   willDue, platform, sinceReading, held, lost, blind, budgetLeft>>

MqttRefused ==
    /\ at = "mqtt" /\ wifi /\ ~accepted
    /\ Passes(2)
    /\ calm' = More(calm)
    /\ sinceReading' = More(sinceReading)
    /\ blind' = (blind \/ button)
    /\ UNCHANGED <<phone, isBool, at, wifi, saved_wifi, sock, level, m, lastStatusMs, button, resetDownSince,
                   out, brokerVars, lost, budgetLeft>>

MqttNeedsWifi ==
    /\ at = "mqtt" /\ ~wifi
    /\ at' = "wifi"
    /\ UNCHANGED <<phone, isBool, clock, wifi, saved_wifi, sock, level, m, lastStatusMs, button, resetDownSince,
                   out, brokerVars, ghostVars, budgetLeft>>

(* connectWifi, one turn of its loop; phone setup watches the button here. *)
WifiWaits ==
    /\ at = "wifi" /\ ~wifi /\ ~HeldDown
    /\ IF phone THEN Watches ELSE UNCHANGED <<resetDownSince, blind>>
    /\ Passes(1)
    /\ calm' = More(calm)
    /\ sinceReading' = More(sinceReading)
    /\ UNCHANGED <<phone, isBool, at, wifi, saved_wifi, sock, level, m, lastStatusMs, button, out, brokerVars,
                   lost, budgetLeft>>

WifiThere ==
    /\ at = "wifi" /\ wifi
    /\ at' = "mqtt"
    /\ blind' = (phone /\ (button \/ resetDownSince # 0))
    /\ UNCHANGED <<phone, isBool, clock, wifi, saved_wifi, sock, level, m, lastStatusMs, button, resetDownSince,
                   out, brokerVars, calm, sinceReading, held, lost, budgetLeft>>

-----------------------------------------------------------------------------
(* The network, the broker, the author and the people around the board. *)

Happens(k) ==
    /\ budgetLeft[k] > 0
    /\ budgetLeft' = [budgetLeft EXCEPT ![k] = @ - 1]
    /\ calm' = 0

WifiUp ==
    /\ ~wifi /\ (saved_wifi \/ ~phone)
    /\ wifi' = TRUE
    /\ calm' = 0
    /\ UNCHANGED <<phone, isBool, at, clock, saved_wifi, sock, level, m, lastStatusMs, button, resetDownSince,
                   out, brokerVars, sinceReading, held, lost, blind, budgetLeft>>

(* The connection goes, with the Wi-Fi or without, and nobody has noticed; *)
(* or the Wi-Fi goes while the board is connecting.                        *)
Drops(w) ==
    /\ Happens("drop")
    /\ sock = "up" \/ (wifi /\ ~w)
    /\ wifi' = w /\ sock' = IF sock = "up" THEN "dead" ELSE sock
    /\ inbox' = <<>> /\ willDue' = (willDue \/ sock = "up")
    /\ UNCHANGED <<phone, isBool, at, clock, saved_wifi, level, m, lastStatusMs, button, resetDownSince, out,
                   accepted, topics, platform, sinceReading, held, lost, blind>>

(* mqttClient.connected() finds the socket closed.                         *)
BoardNotices ==
    /\ sock = "dead"
    /\ sock' = "down"
    /\ calm' = 0
    /\ UNCHANGED <<phone, isBool, at, clock, wifi, saved_wifi, level, m, lastStatusMs, button, resetDownSince,
                   out, brokerVars, sinceReading, held, lost, blind, budgetLeft>>

(* The broker publishes the will of a session that ended, on its keepalive *)
(* or because the board connected again; nothing orders it with the new    *)
(* session's messages.                                                     *)
WillFires ==
    /\ willDue
    /\ willDue' = FALSE
    /\ topics' = [topics EXCEPT !.status = "offline"]
    /\ calm' = 0
    /\ UNCHANGED <<boardVars, accepted, inbox, platform, sinceReading, held, lost, blind, budgetLeft>>

(* Someone rotates the credential: the next connection is refused.         *)
Rotates ==
    /\ Happens("rotate")
    /\ accepted' = ~accepted
    /\ UNCHANGED <<boardVars, inbox, topics, willDue, platform, sinceReading, held, lost, blind>>

ToBoard(msgs) == inbox' = IF sock = "up" THEN inbox \o msgs ELSE inbox

(* _handle_config_publish: retained, after an edit of the template.      *)
EditProfile(c) ==
    /\ Happens("config")
    /\ topics' = [topics EXCEPT !.config = c]
    /\ ToBoard(<<[topic |-> "config", body |-> c]>>)
    /\ UNCHANGED <<boardVars, accepted, willDue, platform, sinceReading, held, lost, blind>>

SendCommand(v) ==
    /\ Happens("cmd")
    /\ topics' = [topics EXCEPT !.state = v]
    /\ ToBoard(<<[topic |-> "cmd", body |-> v], [topic |-> "state", body |-> v]>>)
    /\ UNCHANGED <<boardVars, accepted, willDue, platform, sinceReading, held, lost, blind>>

LevelBecomes(v) ==
    /\ Happens("level")
    /\ v # level /\ (isBool => v \in {0, 1})
    /\ level' = v
    /\ UNCHANGED <<phone, isBool, at, clock, wifi, saved_wifi, sock, m, lastStatusMs, button, resetDownSince,
                   out, brokerVars, sinceReading, held, lost, blind>>

(* Somebody presses the button or lets go; each lasts a pass at least.     *)
Press ==
    /\ calm > 0 \/ at = "mqtt"
    /\ Happens("press")
    /\ button' = ~button
    /\ held' = 0
    /\ blind' = (blind \/ (phone /\ at = "mqtt"))
    /\ UNCHANGED <<phone, isBool, at, clock, wifi, saved_wifi, sock, level, m, lastStatusMs, resetDownSince,
                   out, brokerVars, sinceReading, lost>>

(* A network from the phone.                                               *)
Provisioned ==
    /\ phone /\ ~saved_wifi
    /\ saved_wifi' = TRUE
    /\ calm' = 0
    /\ UNCHANGED <<phone, isBool, at, clock, wifi, sock, level, m, lastStatusMs, button, resetDownSince, out,
                   brokerVars, sinceReading, held, lost, blind, budgetLeft>>

SketchNext ==
    \/ Restart \/ LoopWaits \/ LoopConnects \/ LoopPass \/ Receive
    \/ MqttConnects \/ MqttRefused \/ MqttNeedsWifi \/ WifiWaits \/ WifiThere
    \/ WifiUp \/ \E w \in BOOLEAN : Drops(w)
    \/ BoardNotices \/ WillFires \/ Rotates
    \/ \E p \in {"periodic", "on_change"}, fits \in BOOLEAN : EditProfile(ConfigOf(p, 3, 0, fits))
    \/ EditProfile(ConfigOf("streaming", 0, 0, TRUE))
    \/ \E v \in {0, 1} : SendCommand(v)
    \/ \E v \in -1 .. 2 : LevelBecomes(v)
    \/ Press \/ Provisioned

SketchSpec == SketchInit /\ [][SketchNext]_sketchVars

-----------------------------------------------------------------------------
(* Properties. Each says what is so once nothing has changed for a while. *)

(* publishMetrics: whatever was lost, refused or overtaken before, and     *)
(* wherever millis() wraps, a connected board that reads a steady level    *)
(* has told it, and told it within its interval (a debounce later at the   *)
(* most: once per wrap the candidate looks new).                           *)
ReportsWhatItReads ==
    calm > m.every + BOOL_DEBOUNCE + 1 /\ sock = "up" /\ level # None =>
        platform = level /\ sinceReading <= m.every + BOOL_DEBOUNCE

(* An on_change metric does not wait for its heartbeat: a change beyond    *)
(* the deadband is told as soon as it is debounced, unless it went into a  *)
(* connection already dead.                                                *)
ChangeIsQuick ==
    /\ m.mode = "on_change" /\ sock = "up" /\ level # None /\ ~lost
    /\ calm > ON_CHANGE_MIN_GAP + (IF isBool THEN BOOL_DEBOUNCE ELSE 0)
    => IF isBool THEN platform = level ELSE Distance(platform, level) <= m.deadband

(* "the sketch follows the retained config topic live": after any outage   *)
(* or restart a connected board runs the template's current profile, if    *)
(* the message fits its buffer.                                            *)
Runs(p, c) ==
    /\ p.mode = c.publish /\ p.deadband = c.deadband
    /\ p.every = IF c.interval = 0 THEN defaultInterval(c.publish) ELSE c.interval
FollowsProfile == sock = "up" /\ inbox = <<>> /\ topics.config.fits => Runs(m, topics.config)

(* The same of a profile of any size ("a catalog edit takes effect without *)
(* a reflash").                                                            *)
FollowsAnyProfile ==
    sock = "up" /\ inbox = <<>> => m.mode = topics.config.publish

(* "a reconnecting board converges": with nothing under way its output is  *)
(* the retained desired state.                                             *)
OutputFollows == sock = "up" /\ inbox = <<>> /\ topics.state # None => out = topics.state

(* The retained status the platform goes by: a board that dropped off is   *)
(* not online once its will is out.                                        *)
OfflineTells == ~willDue /\ sock # "up" => topics.status # "online"

(* What the board does and what the broker keeps of it agree, whatever was *)
(* lost, refused, overtaken or rewritten meanwhile.                        *)
BoardFollows == FollowsProfile /\ OutputFollows /\ OfflineTells

(* And a connected board is online, also when an old session's will        *)
(* overtook its first status.                                              *)
OnlineTells == ~willDue /\ calm > STATUS_INTERVAL /\ sock = "up" => topics.status = "online"

(* "hold for 5 seconds while running": held that long the board forgets    *)
(* its Wi-Fi, with the Wi-Fi up or down, outside connectMqtt.              *)
HoldForgets == phone /\ ~blind => held <= RESET_HOLD + 2

(* The same with the broker refusing the board (the sketch's header: "while *)
(* the board is running").                                                  *)
HoldAlwaysForgets == phone => held <= RESET_HOLD + 3

(* The Wi-Fi is forgotten only after the button was down all that time,    *)
(* unless the board was in connectMqtt meanwhile and missed its release.   *)
ForgetStep == saved_wifi /\ ~saved_wifi' => held >= RESET_HOLD \/ blind

(* The same without that exception.                                        *)
ForgetAlwaysNeedsHold == [][saved_wifi /\ ~saved_wifi' => held >= RESET_HOLD]_sketchVars

-----------------------------------------------------------------------------
(* Why BoardFollows holds: the last message on its way to a connected      *)
(* board is what the broker keeps, or the board has it.                    *)

ProfileMessage == [topic : {"config"}, body : Profile]
OutputMessage  == [topic : {"cmd", "state"}, body : Int]

MetricProfile == [declared : Profile, mode : {"periodic", "on_change", "streaming"}, every : Nat, deadband : Nat,
                  lastValue : Int, lastPublish : Int, candidate : Int, candidateSince : Int]

SketchTypeOK ==
    /\ sock \in {"down", "up", "dead"}
    /\ clock \in Int /\ level \in Int /\ out \in Int
    /\ m \in MetricProfile
    /\ inbox \in Seq(ProfileMessage \cup OutputMessage)
    /\ topics \in [status : {"none", "online", "offline"}, config : Profile, state : Int]

NoneOf(s, kinds) == \A i \in DOMAIN s : s[i].topic \notin kinds
EndsWith(s, kinds, b) ==
    \E i \in DOMAIN s : /\ s[i].topic \in kinds /\ s[i].body = b
                        /\ \A j \in DOMAIN s : j > i => s[j].topic \notin kinds

ProfileComes ==
    sock = "up" =>
        \/ EndsWith(inbox, {"config"}, topics.config)
        \/ NoneOf(inbox, {"config"}) /\ (topics.config.fits => Runs(m, topics.config))

StateComes ==
    sock = "up" /\ topics.state # None =>
        \/ EndsWith(inbox, {"cmd", "state"}, topics.state)
        \/ NoneOf(inbox, {"cmd", "state"}) /\ out = topics.state

SketchInv == SketchTypeOK /\ ProfileComes /\ StateComes /\ OfflineTells

(* Why ForgetStep holds: unless it was in connectMqtt meanwhile, the board  *)
(* has not seen the button down longer than it was, and has seen a release  *)
(* before the button can go down again.                                     *)
ButtonSeen ==
    phone /\ ~blind =>
        /\ at \in {"mqtt", "rest"} => resetDownSince = 0
        /\ ~button /\ resetDownSince # 0 => calm = 0
        /\ button /\ resetDownSince # 0 => Since(resetDownSince) <= held \/ held = Cap

ForgetInv ==
    /\ {phone, button, blind} \subseteq BOOLEAN
    /\ clock \in 0 .. (Wrap - 1) /\ resetDownSince \in 0 .. (Wrap - 1)
    /\ held \in 0 .. Cap /\ calm \in 0 .. Cap
    /\ at \in {"loop", "rest", "mqtt", "wifi"}
    /\ ButtonSeen

(* Why OnlineTells holds: a connected board is in loop(), and says it is   *)
(* online before its interval has passed since an old will was out.        *)
OnlineInv ==
    /\ sock = "up" => wifi /\ at \in {"loop", "rest"} /\ Since(lastStatusMs) <= STATUS_INTERVAL
    /\ sock = "up" /\ topics.status # "online" => calm <= Since(lastStatusMs)

(* Why HoldForgets holds: outside connectMqtt the board counts every pass  *)
(* the button is down, but the one at millis() 0, and restarts in time.    *)
HoldCounted ==
    phone /\ ~blind /\ button =>
        /\ at \in {"loop", "wifi"}
        /\ IF resetDownSince = 0
           THEN held = 0 \/ (held = 1 /\ clock = 1)
           ELSE Since(resetDownSince) <= RESET_HOLD /\ held <= Since(resetDownSince) + 1
HoldInv == (~button => held = 0) /\ (at = "rest" => calm = 0) /\ HoldCounted

(* Why ReportsWhatItReads and ChangeIsQuick hold, with the times since the *)
(* last publish and since the candidate was new: the reading was told, or  *)
(* the passes since anything changed and those still needed (the candidate *)
(* may look new again, the interval start again, where millis() wraps)     *)
(* are few enough.                                                         *)
Settled(x, d) ==
    /\ platform = level /\ x = sinceReading + 1
    /\ \/ sinceReading < m.every
       \/ isBool /\ m.candidate = level /\ sinceReading = m.every /\ d >= 1
       \/ isBool /\ m.candidate = level /\ sinceReading = m.every + 1 /\ d >= BOOL_DEBOUNCE

Few(c, x, d, e, W) ==
    /\ d >= 2 /\ x >= e => c <= e + 2
    /\ d >= 2 /\ x < e => c <= x + 2 /\ (d + (e - x) >= W => c <= x)
    /\ d < 2 /\ x >= e => c <= d + e /\ (x + (2 - d) >= W => c <= x + 2 - W)
    /\ d < 2 /\ x < e => c <= x + 2 /\ c <= e + d

Waits(x, d) ==
    IF isBool THEN m.candidate = level /\ Few(calm, x, d, m.every, Wrap) ELSE calm <= x /\ x <= m.every

Quick(x, d) ==
    \/ m.lastValue # None /\ m.candidate = level /\ m.lastValue = level
    \/ ~isBool /\ m.lastValue # None /\ Distance(level, m.lastValue) <= m.deadband
    \/ ~isBool /\ m.lastValue # None /\ calm = 1 /\ x = 1
    \/ isBool /\ m.candidate = level /\
         \/ calm <= d /\ d <= BOOL_DEBOUNCE
         \/ calm <= d + 1 /\ d <= BOOL_DEBOUNCE /\ x = d + 1
         \/ calm <= BOOL_DEBOUNCE + 1 /\ d >= BOOL_DEBOUNCE /\ x = 1

ClocksOK == {m.lastPublish, m.candidateSince, lastStatusMs} \subseteq 0 .. (Wrap - 1) /\ m.every >= 1

MeasuresOK == isBool \in BOOLEAN /\ sinceReading \in 0 .. Cap

ReadingInv ==
    /\ ~lost /\ m.lastValue # None => platform = m.lastValue
    /\ sock = "up" /\ level # None /\ calm > 0 =>
         /\ m.every <= 3 => Settled(Since(m.lastPublish), Since(m.candidateSince))
                              \/ Waits(Since(m.lastPublish), Since(m.candidateSince))
         /\ m.mode = "on_change" => Quick(Since(m.lastPublish), Since(m.candidateSince))

BoardInv == ClocksOK /\ MeasuresOK /\ OnlineInv /\ HoldInv /\ ReadingInv
=============================================================================
