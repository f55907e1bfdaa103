------------------------------ MODULE Settings ------------------------------
(* What the device keeps in flash, what it runs with, and who changes it:    *)
(* the settings (main/settings.c), the web server's configuration handlers   *)
(* (main/network/web_server.c), and the commands of Home Assistant           *)
(* (main/network/ha_mqtt.c), pog Home (main/pogdev_app.c) and the onboarding *)
(* link, in a task of their own.  A behaviour is about one setting.  Its     *)
(* keys are two groups "a" and "b" (one for a setting of a single key): a    *)
(* request gives some of them a value and keeps the others.  There is no     *)
(* lock: a request is a sequence of steps.  A write to flash may fail; the   *)
(* power may be cut between any two steps, and a key that is written and not *)
(* committed then has either value.                                          *)
EXTENDS Naturals, Sequences, FiniteSets

CONSTANTS MaxRequests,  \* requests that are received
          MaxFaults,    \* writes to flash that fail
          MaxCuts       \* power cuts

VARIABLES
  setting,  \* the setting this behaviour is about
  flash,    \* what nvs_get_* returns
  durable,  \* what nvs_commit has made permanent
  live,     \* what the device runs with; for the gain, g_max_gain
  writer,   \* for each task: the steps it still has to run, its local values
  asked,    \* for each key: the values the answers allow after a restart
  setHist   \* requests overlapped, a write failed, a key was saved unapplied

setVars == <<setting, flash, durable, live, writer, asked, setHist>>

Writers == {"web", "remote"}
Values == {0, 1}

\* ---- main/settings.c: what is written, and when the RAM copy changes -------
\* A store is the order of the nvs_set_* and nvs_commit calls.
WifiStore == [sets |-> <<"a", "b", "commit">>, cache |-> "none"]
NameStore == [sets |-> <<"a", "commit">>, cache |-> "none"]
MatrixStore == [sets |-> <<"a", "b", "commit">>, cache |-> "none"]
ArgbStore == [sets |-> <<"a", "b", "commit">>, cache |-> "none"]
ToneStore == [sets |-> <<"a", "b", "commit">>, cache |-> "none"]
MqttStore == [sets |-> <<"a", "b", "commit">>, cache |-> "none"]
ButtonsStore == [sets |-> <<"a", "b", "commit">>, cache |-> "none"]
\* settings_set_protection is key "a", settings_set_channel_mode key "b"
ProtectionStore == [sets |-> <<"a", "commit">>, cache |-> "none"]
ChannelStore == [sets |-> <<"b", "commit">>, cache |-> "none"]

\* Mutant: the gain is written and not committed
GainStoreUncommitted == [sets |-> <<"a">>, cache |-> "first"]

\* g_max_gain changes before the flash; an unchanged gain is not written
GainStore == [sets |-> <<"a", "commit">>, cache |-> "first"]

\* ---- the handlers: which values they keep, what they do when saved ----------
\* partial: the values not given are read back first.  apply: "local" passes
\* the request's values on, "reread" lets the driver read the settings again,
\* "boot" leaves it to the next boot, "restart" restarts after the answer.
Handler(store, partial, apply) ==
  [store |-> store, partial |-> partial, apply |-> apply, obeys |-> TRUE]

WifiPost == Handler(WifiStore, FALSE, "restart")
NamePost == Handler(NameStore, FALSE, "boot")
GainPost == Handler(GainStore, FALSE, "ram")
VolumePost == Handler(GainStore, TRUE, "ram")

\* Mutant: the driver is told to read the settings before they are saved
MatrixPostEarly ==
  Handler([MatrixStore EXCEPT !.sets = <<"apply">> \o @], TRUE, "boot")

MatrixPost == Handler(MatrixStore, TRUE, "reread")
ArgbPost == Handler(ArgbStore, TRUE, "reread")
TonePost == Handler(ToneStore, TRUE, "local")
\* the limiter and the channel mode from the request, the amplifier re-read
ProtectionPost ==
  Handler([sets |-> ProtectionStore.sets \o ChannelStore.sets, cache |-> "none"],
          TRUE, "local")
ButtonsPost == Handler(ButtonsStore, TRUE, "boot")
MqttPost == Handler(MqttStore, TRUE, "reread")

\* settings_set_wifi_credentials from the onboarding link
OnboardingWifi == Handler(WifiStore, FALSE, "restart")
\* ha_mqtt: the gain; the tone is applied even when it could not be saved
HaVolume == Handler(GainStore, FALSE, "ram")
HaTone == [Handler(ToneStore, TRUE, "local") EXCEPT !.obeys = FALSE]
HaMatrix == Handler(MatrixStore, TRUE, "reread")
\* pog Home
PogTone == Handler(ToneStore, TRUE, "local")
PogArgb == Handler(ArgbStore, TRUE, "reread")
PogStandby == Handler(ProtectionStore, TRUE, "reread")
\* settings_set_channel_mode and nothing else
PogChannel == Handler(ChannelStore, TRUE, "never")

WebHandlers(s) ==
  CASE s = "wifi" -> {WifiPost}          [] s = "name" -> {NamePost}
    [] s = "gain" -> {GainPost, VolumePost}
    [] s = "matrix" -> {MatrixPost}      [] s = "argb" -> {ArgbPost}
    [] s = "tone" -> {TonePost}          [] s = "protection" -> {ProtectionPost}
    [] s = "buttons" -> {ButtonsPost}    [] s = "mqtt" -> {MqttPost}

RemoteHandlers(s) ==
  CASE s = "wifi" -> {OnboardingWifi}    [] s = "gain" -> {HaVolume}
    [] s = "matrix" -> {HaMatrix}        [] s = "argb" -> {PogArgb}
    [] s = "tone" -> {HaTone, PogTone}
    [] s = "protection" -> {PogStandby, PogChannel}
    [] OTHER -> {}

SettingNames == {"wifi", "name", "gain", "matrix", "argb", "tone", "protection",
                 "buttons", "mqtt"}

Keys == IF setting \in {"name", "gain"} THEN {"a"} ELSE {"a", "b"}
StoreKeys(store) == {store.sets[i] : i \in DOMAIN store.sets} \cap Keys

Idle == [todo |-> << >>, new |-> [k \in {"a", "b"} |-> 0], chg |-> {}, err |-> FALSE,
         handler |-> NamePost]

\* settings_init, and the drivers that read their settings at boot
Init ==
  /\ setting \in SettingNames
  /\ flash = [k \in {"a", "b"} |-> 0]
  /\ durable = flash /\ live = flash
  /\ writer = [t \in Writers |-> Idle]
  /\ asked = [k \in {"a", "b"} |-> {0}]
  /\ setHist = [overlap |-> FALSE, failed |-> FALSE, unapplied |-> FALSE,
                requests |-> 0, faults |-> 0, cuts |-> 0]

Quiet == \A t \in Writers : writer[t].todo = << >>

\* The steps of a handler once its request is accepted
Saving(h) ==
  CASE h.store.cache = "first" -> <<"same", "ram">> \o h.store.sets
    [] OTHER -> h.store.sets

Steps(h) ==
  (IF h.partial THEN <<"get">> ELSE << >>) \o Saving(h)
    \o (CASE h.apply = "local" -> <<"local">>
          [] h.apply = "reread" -> <<"apply">>
          [] OTHER -> << >>)
    \o <<"reply">>
    \o (IF h.apply = "restart" THEN <<"restart">> ELSE << >>)

\* A request has passed check_auth, its body is complete, parsed and in range
\* (anything else is answered and changes nothing)
Request(t) ==
  /\ writer[t].todo = << >> /\ setHist.requests < MaxRequests
  /\ \E h \in (IF t = "web" THEN WebHandlers(setting) ELSE RemoteHandlers(setting)) :
     \E given \in SUBSET StoreKeys(h.store) :
     \E new \in [{"a", "b"} -> Values] :
        /\ given # {} /\ (h.partial \/ given = StoreKeys(h.store))
        /\ \A k \in {"a", "b"} \ given : new[k] = 0
        /\ writer' = [writer EXCEPT ![t] =
              [todo |-> Steps(h), new |-> new, chg |-> given, err |-> FALSE,
               handler |-> h]]
  /\ setHist' = [setHist EXCEPT !.requests = @ + 1, !.overlap = @ \/ ~Quiet]
  /\ UNCHANGED <<setting, flash, durable, live, asked>>

At(t, step) == writer[t].todo # << >> /\ Head(writer[t].todo) = step
Advance(t) == writer' = [writer EXCEPT ![t].todo = Tail(@)]

\* settings_get_*: the RAM copy of the gain, otherwise the flash
Get(t) ==
  /\ At(t, "get")
  /\ LET now == IF writer[t].handler.store.cache = "first" THEN live ELSE flash IN
     writer' = [writer EXCEPT ![t].todo = Tail(@),
                  ![t].new = [k \in {"a", "b"} |->
                     IF k \in writer[t].chg THEN writer[t].new[k] ELSE now[k]]]
  /\ UNCHANGED <<setting, flash, durable, live, asked, setHist>>

\* settings_set_max_gain: unchanged is ESP_OK at once, otherwise the RAM first
SkipUnchanged(t) ==
  /\ At(t, "same")
  /\ writer' = [writer EXCEPT ![t].todo =
        IF writer[t].new["a"] = live["a"] THEN <<"reply">> ELSE Tail(@)]
  /\ UNCHANGED <<setting, flash, durable, live, asked, setHist>>

ApplyRam(t) ==
  /\ At(t, "ram") /\ Advance(t)
  /\ live' = [live EXCEPT !["a"] = writer[t].new["a"]]
  /\ UNCHANGED <<setting, flash, durable, asked, setHist>>

\* nvs_set_* and nvs_commit
Write(t) ==
  /\ writer[t].todo # << >> /\ Advance(t)
  /\ \/ \E k \in {"a", "b"} :
          /\ At(t, k)
          /\ flash' = [flash EXCEPT ![k] = writer[t].new[k]]
          /\ UNCHANGED durable
     \/ At(t, "commit") /\ durable' = flash /\ UNCHANGED flash
  /\ UNCHANGED <<setting, live, asked, setHist>>

\* ... failing: the rest is skipped, save what a handler does regardless
WriteFails(t) ==
  /\ At(t, "a") \/ At(t, "b") \/ At(t, "commit")
  /\ setHist.faults < MaxFaults
  /\ writer' = [writer EXCEPT ![t].err = TRUE,
        ![t].todo = IF writer[t].handler.obeys THEN <<"reply">>
                    ELSE <<"local", "reply">>]
  /\ setHist' = [setHist EXCEPT !.failed = TRUE, !.faults = @ + 1]
  /\ UNCHANGED <<setting, flash, durable, live, asked>>

\* eq_dsp_set, audio_limiter_set ... with the handler's own values
ApplyLocal(t) ==
  /\ At(t, "local") /\ Advance(t)
  /\ live' = [k \in {"a", "b"} |->
                IF k \in StoreKeys(writer[t].handler.store)
                  THEN writer[t].new[k] ELSE live[k]]
  /\ UNCHANGED <<setting, flash, durable, asked, setHist>>

\* led_matrix_reconfigure, led_argb_reconfigure, amp_ctrl_reconfigure,
\* ha_mqtt_reconfigure: the driver reads its settings again
ApplyReread(t) ==
  /\ At(t, "apply") /\ Advance(t)
  /\ live' = [k \in {"a", "b"} |->
                IF k \in StoreKeys(writer[t].handler.store) THEN flash[k] ELSE live[k]]
  /\ UNCHANGED <<setting, flash, durable, asked, setHist>>

\* The answer: OK promises the values given, a failure promises nothing
Reply(t) ==
  /\ At(t, "reply") /\ Advance(t)
  /\ LET w == writer[t] IN
     /\ asked' = [k \in {"a", "b"} |->
          IF k \notin w.chg THEN asked[k]
          ELSE IF w.err THEN asked[k] \union {w.new[k]} ELSE {w.new[k]}]
     /\ setHist' = [setHist EXCEPT !.unapplied = @ \/ w.handler.apply = "never"]
  /\ UNCHANGED <<setting, flash, durable, live>>

\* settings_init and the drivers' set-up after a reset
Booted ==
  /\ \E stays \in SUBSET {"a", "b"} :
       flash' = [k \in {"a", "b"} |-> IF k \in stays THEN flash[k] ELSE durable[k]]
  /\ durable' = flash' /\ live' = flash'
  /\ writer' = [t \in Writers |-> Idle]
  /\ asked' = [k \in {"a", "b"} |-> asked[k] \union
                 {writer[t].new[k] : t \in {u \in Writers :
                    writer[u].todo # << >> /\ k \in writer[u].chg}}]
  /\ UNCHANGED setting

PowerCut ==
  /\ setHist.cuts < MaxCuts
  /\ Booted
  /\ setHist' = [setHist EXCEPT !.cuts = @ + 1]

\* esp_restart, half a second after the answer
Restart(t) == At(t, "restart") /\ Booted /\ UNCHANGED setHist

Next ==
  \/ \E t \in Writers :
        \/ Request(t) \/ Get(t) \/ SkipUnchanged(t) \/ ApplyRam(t) \/ Write(t)
        \/ WriteFails(t) \/ ApplyLocal(t) \/ ApplyReread(t) \/ Reply(t) \/ Restart(t)
  \/ PowerCut

Spec == Init /\ [][Next]_setVars

TypeOK ==
  /\ setting \in SettingNames
  /\ {flash, durable, live} \subseteq [{"a", "b"} -> Values]
  /\ asked \in [{"a", "b"} -> SUBSET Values]

\* What a request was told is saved is what the device has after a restart,
\* and a request does not disturb the keys it did not name: once no request is
\* under way the flash, committed or not, holds a value the answers allow
\* (settings_set_*, and every handler's reply).  Excluded: requests of two
\* tasks that overlapped, since each writes back all the keys it has read;
\* and the gain once a write of it has failed, since settings_set_max_gain
\* then answers ESP_OK to the same value without writing it.
SavedAsAnswered ==
  Quiet /\ ~setHist.overlap /\ ~(setting = "gain" /\ setHist.failed) =>
     \A k \in Keys : {flash[k], durable[k]} \subseteq asked[k]

\* The device runs with what is saved, also when two tasks change a setting at
\* once: the handlers that let the driver read the settings again cannot leave
\* an older value applied (led_matrix_reconfigure, led_argb_reconfigure,
\* ha_mqtt_reconfigure).  Excluded: a failed write; settings that apply at the
\* next boot; overlapping requests where the handlers apply their own values
\* (tone, protection); and pog Home's channel mode, which is never applied.
LiveIsSaved ==
  Quiet /\ ~setHist.failed /\ ~setHist.unapplied
        /\ setting \notin {"name", "buttons"}
        /\ (setHist.overlap => setting \in {"matrix", "argb", "mqtt", "wifi"})
     => \A k \in Keys : live[k] = flash[k]

\* A setting is one value: what was answered, what flash holds and what the
\* device runs with agree (settings.c and the handlers that call it).
SettingsHold == SavedAsAnswered /\ LiveIsSaved
=============================================================================
