----------------------------- MODULE HomeProofs -----------------------------
(* Proofs about the device and the house (MCHome): a network comes with the *)
(* authority of the phone that sent it; the device keeps to the home and    *)
(* the group it is in; the lamp never goes back in the music; the microphone *)
(* obeys.  The parts share no variables, so each has an invariant of its own. *)
EXTENDS MCHome, SequenceTheorems, WellFoundedInduction, TLAPS

-----------------------------------------------------------------------------
(* Setting the device up (Onboarding).                                      *)

OnboardingFields ==
  /\ saved = [proof |-> saved.proof, network |-> saved.network]
  /\ apply = [at |-> apply.at, assertion |-> apply.assertion]
  /\ onbHist = [frames |-> onbHist.frames, links |-> onbHist.links,
                faults |-> onbHist.faults, cuts |-> onbHist.cuts, torn |-> onbHist.torn]

\* What is pending is the connected phone's, and goes with it.
OnboardingPending ==
  /\ granted # "none" => granted = link
  /\ apply.at \in {"none", "proof", "network"}
  /\ apply.at # "none" => apply.assertion = link

\* onboarding_apply runs only without a network, and writes the network last.
OnboardingWrites ==
  /\ apply.at # "none" => saved.network = "none"
  /\ apply.at = "network" => saved.proof = apply.assertion
  /\ saved.network # "none" => onbHist.torn \/ saved.proof = saved.network

OnboardingInv == OnboardingFields /\ OnboardingPending /\ OnboardingWrites

\* A frame writes nothing: it holds what it may use, or begins to apply.
LEMMA OnboardingFrame ==
  ASSUME OnboardingInv, Onboard!Frame
  PROVE  OnboardingInv'
<1>1. /\ apply.at = "none" /\ UNCHANGED <<link, saved>>
      /\ onbHist' = [onbHist EXCEPT !.frames = @ + 1]
  BY DEF Onboard!Frame
<1>2. /\ granted' = granted \/ granted' = link
      /\ \/ apply' = apply
         \/ /\ saved.network = "none"
            /\ \/ apply' = [at |-> "proof", assertion |-> link]
               \/ granted # "none" /\ apply' = [at |-> "proof", assertion |-> granted]
  <2>1. ASSUME NEW parts, Onboard!ApplyPayload(parts)
        PROVE  /\ granted' = granted \/ granted' = link
               /\ \/ apply' = apply
                  \/ /\ saved.network = "none"
                     /\ \/ apply' = [at |-> "proof", assertion |-> link]
                        \/ granted # "none" /\ apply' = [at |-> "proof", assertion |-> granted]
    BY <2>1 DEF Onboard!ApplyPayload, Onboard!None
  <2> QED
    BY <2>1 DEF Onboard!Frame, Onboard!Refuse
<1>3. OnboardingFields'
  BY <1>1, <1>2 DEF OnboardingInv, OnboardingFields
<1>4. OnboardingPending'
  BY <1>1, <1>2 DEF OnboardingInv, OnboardingPending
<1>5. OnboardingWrites'
  <2>1. apply'.at \in {"none", "proof"} /\ (apply'.at # "none" => saved.network = "none")
    BY <1>1, <1>2
  <2>2. onbHist'.torn <=> onbHist.torn
    BY <1>1 DEF OnboardingInv, OnboardingFields
  <2> QED
    BY <1>1, <2>1, <2>2 DEF OnboardingInv, OnboardingWrites
<1> QED
  BY <1>3, <1>4, <1>5 DEF OnboardingInv

\* The writes of onboarding_apply, done or failed.
LEMMA OnboardingStores ==
  ASSUME OnboardingInv, Onboard!Store \/ Onboard!StoreFails \/ Onboard!StoreTears
  PROVE  OnboardingInv'
<1> USE DEF OnboardingInv, Onboard!Resting, Onboard!None
<1>1. CASE Onboard!Store /\ apply.at = "proof"
  <2>1. /\ saved' = [saved EXCEPT !.proof = apply.assertion]
        /\ apply' = [apply EXCEPT !.at = "network"]
        /\ UNCHANGED <<link, granted, onbHist>>
    BY <1>1 DEF Onboard!Store, Onboard!Written, Onboard!Steps
  <2> QED
    BY <1>1, <2>1 DEF OnboardingFields, OnboardingPending, OnboardingWrites
<1>2. CASE Onboard!Store /\ apply.at = "network"
  <2>1. /\ saved' = [saved EXCEPT !.network = apply.assertion]
        /\ apply' = [at |-> "none", assertion |-> "none"] /\ granted' = "none"
        /\ UNCHANGED <<link, onbHist>>
    BY <1>2 DEF Onboard!Store, Onboard!Written, Onboard!Steps
  <2> QED
    BY <1>2, <2>1 DEF OnboardingFields, OnboardingPending, OnboardingWrites
<1>3. CASE Onboard!StoreFails
  BY <1>3 DEF Onboard!StoreFails, OnboardingFields, OnboardingPending, OnboardingWrites
<1>4. CASE Onboard!StoreTears
  BY <1>4 DEF Onboard!StoreTears, OnboardingFields, OnboardingPending, OnboardingWrites
<1> QED
  BY <1>1, <1>2, <1>3, <1>4 DEF Onboard!Store

\* A network comes with the authority of the phone that sent it
\* (MCHome!NetworkAuthorised: gap_event_cb, apply_payload, onboarding_apply).
\* The gap events drop what a phone was granted when its connection ends, so
\* what is pending or applied is the connected phone's; and the proof is in
\* flash before the network, which no power cut between them can turn round.
THEOREM NetworkComesAuthorised == Spec => []NetworkAuthorised
<1>1. Init => OnboardingInv
  BY DEF Init, Onboard!Init, Onboard!Resting, Onboard!None, OnboardingInv,
     OnboardingFields, OnboardingPending, OnboardingWrites
<1>2. OnboardingInv /\ [Next]_vars => OnboardingInv'
  <2> SUFFICES ASSUME OnboardingInv, [Next]_vars PROVE OnboardingInv'
    OBVIOUS
  <2>1. CASE Onboard!PhoneConnects \/ Onboard!PhoneLeaves
    BY <2>1 DEF Onboard!PhoneConnects, Onboard!PhoneLeaves, Onboard!LinkReset,
       Onboard!None, OnboardingInv, OnboardingFields, OnboardingPending, OnboardingWrites
  <2>2. CASE Onboard!Restart \/ Onboard!PowerCut
    BY <2>2 DEF Onboard!Restart, Onboard!PowerCut, Onboard!Booted, Onboard!Resting,
       Onboard!None, OnboardingInv, OnboardingFields, OnboardingPending, OnboardingWrites
  <2>3. CASE UNCHANGED onbVars
    BY <2>3 DEF onbVars, OnboardingInv, OnboardingFields, OnboardingPending,
       OnboardingWrites
  <2>4. CASE OnboardingNext
    BY <2>1, <2>2, <2>4, OnboardingFrame, OnboardingStores DEF OnboardingNext, Onboard!Next
  <2> QED
    BY <2>3, <2>4 DEF Next, vars, LightsNext, TalkNext, InPog, InHa, StarterRuns, EnrolRuns,
       DiscoveryRuns, MqttRuns, StateTaskRuns, StateTicks, SoinRuns, HomeActs,
       PogEnvironment, HaClientRuns, HaWebRuns, HaTimerRuns, HaRtspRuns, HaEnvironment
<1>3. OnboardingInv => NetworkAuthorised
  BY DEF OnboardingInv, OnboardingPending, OnboardingWrites, NetworkAuthorised,
     Onboard!NetworkAuthorised, Onboard!OwnAuthorisation, Onboard!NetworkHasProof,
     Onboard!None
<1> QED
  BY <1>1, <1>2, <1>3, PTL DEF Spec, Steps

-----------------------------------------------------------------------------
(* Taking part in a home and in a group (Enrol, PogBus).                    *)

PogFields ==
  /\ nvs = [claim |-> nvs.claim, creds |-> nvs.creds, host |-> nvs.host,
            proof |-> nvs.proof]
  /\ ram = [claim |-> ram.claim, creds |-> ram.creds, host |-> ram.host,
            forgetting |-> ram.forgetting]
  /\ broker = [hello |-> broker.hello, current |-> broker.current,
               groups |-> broker.groups]

\* Flash is empty from the moment the device is told to forget.
PogForgotten ==
  ram.forgetting => nvs.creds = 0 /\ nvs.claim = 0 /\ nvs.host = "nowhere"

\* The broker never sends the frames of another group; after the CONNECTED
\* handler it sends those of the device's own.
PogGroups ==
  /\ broker.groups \subseteq {effect} \ {"none"}
  /\ mqtt = "connected" \/ mqtt = "state" => broker.groups = {effect} \ {"none"}

PogInv == PogFields /\ PogForgotten /\ PogGroups

\* What the enrolment does to flash and memory.
LEMMA PogKeeps ==
  ASSUME PogInv,
         \/ Pog!CreateTask \/ Pog!Discover \/ Pog!Load \/ Pog!Look \/ Pog!EnsureSecret
         \/ Pog!Announce \/ Pog!TaskCollects \/ Pog!TaskStores \/ Pog!TaskClears
         \/ Pog!Forget \/ Pog!Moves \/ Pog!Adopt \/ Pog!RowExpires
         \/ Pog!SoinCollects \/ Pog!SoinStores \/ Pog!SoinFollows
  PROVE  /\ nvs' = [claim |-> nvs'.claim, creds |-> nvs'.creds, host |-> nvs'.host,
                    proof |-> nvs'.proof]
         /\ ram' = [claim |-> ram'.claim, creds |-> ram'.creds, host |-> ram'.host,
                    forgetting |-> ram'.forgetting]
         /\ PogForgotten'
<1> USE DEF PogInv, PogFields, PogForgotten
<1>1. CASE UNCHANGED <<nvs, ram>>
  BY <1>1
<1>2. CASE Pog!Load
  BY <1>2 DEF Pog!Load
<1>3. CASE Pog!EnsureSecret
  BY <1>3 DEF Pog!EnsureSecret
<1>4. CASE Pog!Announce
  BY <1>4 DEF Pog!Announce
<1>5. ASSUME NEW srv, NEW c, Pog!Collect(srv, c)
      PROVE  UNCHANGED <<nvs, ram>> \/ Pog!DropClaim
  BY <1>5 DEF Pog!Collect
<1>6. CASE Pog!DropClaim
  BY <1>6 DEF Pog!DropClaim
<1>7. ASSUME NEW srv, NEW c, Pog!StoreCreds(srv, c)
      PROVE  /\ nvs' = [claim |-> nvs'.claim, creds |-> nvs'.creds, host |-> nvs'.host,
                    proof |-> nvs'.proof]
             /\ ram' = [claim |-> ram'.claim, creds |-> ram'.creds, host |-> ram'.host,
                    forgetting |-> ram'.forgetting]
             /\ PogForgotten'
  BY <1>7 DEF Pog!StoreCreds
<1>8. CASE Pog!TaskCollects
  BY <1>1, <1>5, <1>6, <1>8 DEF Pog!TaskCollects
<1>9. CASE Pog!TaskStores
  BY <1>1, <1>7, <1>9 DEF Pog!TaskStores, Pog!StoreRefused
<1>10. CASE Pog!TaskClears
  BY <1>10 DEF Pog!TaskClears
<1>11. CASE Pog!Forget
  BY <1>11 DEF Pog!Forget, Pog!Blank, Pog!Unknown, Pog!Nowhere
<1>12. CASE Pog!SoinCollects
  BY <1>1, <1>5, <1>6, <1>12 DEF Pog!SoinCollects
<1>13. CASE Pog!SoinStores
  BY <1>1, <1>7, <1>13 DEF Pog!SoinStores, Pog!StoreRefused
<1>14. CASE Pog!SoinFollows
  BY <1>1, <1>14 DEF Pog!SoinFollows, Pog!UpdateHost, Pog!HostMoved, Pog!EnrolGet
<1> QED
  BY <1>1, <1>2, <1>3, <1>4, <1>8, <1>9, <1>10, <1>11, <1>12, <1>13, <1>14
     DEF Pog!CreateTask, Pog!Discover, Pog!Look, Pog!Moves, Pog!Adopt, Pog!RowExpires

\* What the link does to the broker's view.
LEMMA PogSubscribed ==
  ASSUME PogInv,
         \/ Pog!StarterStartsBus \/ Pog!AdoptionStartsBus \/ Pog!MqttRuns
         \/ Pog!StateTaskRuns \/ Pog!StateTicks
         \/ Pog!SoinWakes \/ Pog!SoinLocks \/ Pog!SoinStops \/ Pog!SoinLaunches
         \/ Pog!Command \/ Pog!StateChanges
  PROVE  UNCHANGED <<nvs, ram>> /\ PogInv'
<1> USE DEF PogInv, PogFields, PogForgotten, PogGroups
<1>1. CASE Pog!StarterStartsBus \/ Pog!AdoptionStartsBus
  <2>1. UNCHANGED <<nvs, ram, broker, effect>> /\ (mqtt' = mqtt \/ mqtt' = "waiting")
    BY <1>1 DEF Pog!StarterStartsBus, Pog!AdoptionStartsBus, Pog!StartBus, Pog!Launch
  <2> QED
    BY <2>1
<1>2. CASE Pog!Connected \/ Pog!ConnectFails \/ Pog!SpeakerTakes \/ Pog!SoinWakes
            \/ Pog!SoinLocks
  <2>1. /\ UNCHANGED <<nvs, ram, broker, effect>> /\ (mqtt' = mqtt \/ mqtt' = "hello")
    BY <1>2 DEF Pog!Connected, Pog!ConnectFails, Pog!SpeakerTakes, Pog!SoinWakes,
       Pog!SoinLocks, Pog!enrolVars
  <2> QED
    BY <2>1
<1>3. CASE Pog!ConnectionLost \/ Pog!SoinStops
  <2>1. /\ UNCHANGED <<nvs, ram, effect>>
        /\ broker' = [hello |-> FALSE, current |-> FALSE, groups |-> {}]
        /\ mqtt' = "waiting" \/ mqtt' = "off"
    BY <1>3 DEF Pog!ConnectionLost, Pog!SoinStops, Pog!enrolVars, Pog!NothingHeld
  <2> QED
    BY <2>1
<1>4. CASE Pog!HandlerTellsHello \/ Pog!SpeakerTellsHello
  <2>1. /\ UNCHANGED <<nvs, ram, effect>> /\ (mqtt' = mqtt \/ mqtt' = "subscribe")
        /\ broker' = broker \/ broker' = [broker EXCEPT !.hello = TRUE]
    BY <1>4 DEF Pog!HandlerTellsHello, Pog!SpeakerTellsHello, Pog!PublishHello
  <2> QED
    BY <2>1
<1>5. CASE Pog!HandlerSubscribes
  <2>1. /\ UNCHANGED <<nvs, ram, effect>> /\ mqtt' = "state"
        /\ broker' = [broker EXCEPT !.groups = Pog!Resubscribed(@)]
    BY <1>5 DEF Pog!HandlerSubscribes, Pog!enrolVars
  <2>2. Pog!Resubscribed(broker.groups) = {effect} \ {"none"}
    BY DEF Pog!Resubscribed, Pog!None
  <2> QED
    BY <2>1, <2>2
<1>6. CASE Pog!HandlerTellsState
  BY <1>6 DEF Pog!HandlerTellsState, Pog!enrolVars
<1>7. CASE Pog!Command
  <2>1. /\ UNCHANGED <<nvs, ram>> /\ mqtt = "connected" /\ mqtt' = "state"
        /\ \/ UNCHANGED <<effect, broker>>
           \/ \E g \in Groups : effect' = g /\ broker' = [broker EXCEPT !.groups = {g}]
           \/ effect' = "none" /\ broker' = [broker EXCEPT !.groups = {}]
    BY <1>7 DEF Pog!Command, Pog!enrolVars, Pog!None
  <2> QED
    BY <2>1, HomeAssumption
<1>8. CASE Pog!StateChanges \/ Pog!SpeakerTellsState
  <2>1. /\ UNCHANGED <<nvs, ram, mqtt, effect>>
        /\ \E on \in BOOLEAN : broker' = [broker EXCEPT !.current = on]
    BY <1>8 DEF Pog!StateChanges, Pog!SpeakerTellsState, Pog!enrolVars
  <2> QED
    BY <2>1
<1>9. CASE Pog!SoinLaunches
  <2>1. UNCHANGED <<nvs, ram, broker, effect>> /\ mqtt' = "waiting"
    BY <1>9 DEF Pog!SoinLaunches, Pog!Launch, Pog!enrolVars
  <2> QED
    BY <2>1
<1> QED
  BY <1>1, <1>2, <1>3, <1>4, <1>5, <1>6, <1>7, <1>8, <1>9
     DEF Pog!MqttRuns, Pog!StateTaskRuns, Pog!StateTicks

\* A device takes no part in a home or a group it has left
\* (MCHome!KeepsToItsOwn: pogdev_forget against store_creds,
\* ensure_claim_secret, collect and pogdev_enrol_update_host; join, leave and
\* the CONNECTED handler).  Every writer of flash looks at the order to forget
\* in the step in which it writes, and every change of the group takes what the
\* broker holds with it.
THEOREM TakesNoOtherPart == Spec => []KeepsToItsOwn
<1>1. Init => PogInv
  <2> SUFFICES ASSUME Init PROVE PogInv
    OBVIOUS
  <2>1. nvs = Pog!Blank \/ nvs = [Pog!Blank EXCEPT !.proof = TRUE]
    BY DEF Init, Pog!Init, Pog!EnrolInit
  <2>2. ram = Pog!Unknown /\ broker = Pog!NothingHeld /\ effect = Pog!None /\ mqtt = "off"
    BY DEF Init, Pog!Init, Pog!EnrolInit, Pog!BusInit
  <2> QED
    BY <2>1, <2>2 DEF Pog!Blank, Pog!Unknown, Pog!Nowhere, Pog!NothingHeld, Pog!None,
       PogInv, PogFields, PogForgotten, PogGroups
<1>2. PogInv /\ [Next]_vars => PogInv'
  <2> SUFFICES ASSUME PogInv, [Next]_vars PROVE PogInv'
    OBVIOUS
  <2>1. CASE UNCHANGED pogVars
    BY <2>1 DEF pogVars, PogInv, PogFields, PogForgotten, PogGroups
  <2>2. CASE UNCHANGED Pog!busVars
             /\ \/ Pog!CreateTask \/ Pog!Discover \/ Pog!Load \/ Pog!Look
                \/ Pog!EnsureSecret \/ Pog!Announce \/ Pog!TaskCollects \/ Pog!TaskStores
                \/ Pog!TaskClears \/ Pog!Forget \/ Pog!Moves \/ Pog!Adopt \/ Pog!RowExpires
    <3>1. UNCHANGED <<broker, effect, mqtt>>
      BY <2>2 DEF Pog!busVars
    <3> QED
      BY <2>2, <3>1, PogKeeps DEF PogInv, PogFields, PogGroups
  <2>3. CASE Pog!SoinCollects \/ Pog!SoinStores \/ Pog!SoinFollows
    <3>1. UNCHANGED <<broker, effect, mqtt>>
      BY <2>3 DEF Pog!SoinCollects, Pog!SoinStores, Pog!SoinFollows
    <3> QED
      BY <2>3, <3>1, PogKeeps DEF PogInv, PogFields, PogGroups
  <2>4. CASE Pog!Restart
    BY <2>4 DEF Pog!Restart, Pog!Booted, Pog!Unknown, Pog!NothingHeld, Pog!None,
       PogInv, PogFields, PogForgotten, PogGroups
  <2>5. CASE UNCHANGED focus /\ Pog!Next
    BY <2>2, <2>3, <2>4, <2>5, PogSubscribed
       DEF Pog!Next, Pog!StarterRuns, Pog!EnrolRuns, Pog!DiscoveryRuns, Pog!SoinRuns,
           Pog!HomeActs, Pog!Environment, Pog!Quiet
  <2>6. CASE OnboardingNext \/ LightsNext \/ TalkNext \/ HaClientRuns \/ HaWebRuns \/ HaTimerRuns
              \/ HaRtspRuns \/ HaEnvironment
    BY <2>1, <2>6 DEF OnboardingNext, LightsNext, TalkNext, InHa, HaClientRuns, HaWebRuns,
       HaTimerRuns, HaRtspRuns, HaEnvironment
  <2> QED
    BY <2>1, <2>5, <2>6 DEF Next, vars, InPog, StarterRuns, EnrolRuns, DiscoveryRuns,
       MqttRuns, StateTaskRuns, StateTicks, SoinRuns, HomeActs, PogEnvironment, Pog!Next
<1>3. PogInv => KeepsToItsOwn
  BY DEF PogInv, PogForgotten, PogGroups, KeepsToItsOwn, Pog!KeepsToItsOwn,
     Pog!ForgottenStaysForgotten, Pog!FramesOfOwnGroup, Pog!Nowhere, Pog!None
<1> QED
  BY <1>1, <1>2, <1>3, PTL DEF Spec, Steps

-----------------------------------------------------------------------------
(* Lights that follow a leader (EffectSync).                                *)
Moments == [n : Nat, seq : Nat, received : Nat, due : Nat]

LightsTyped ==
  /\ sync = [joined |-> sync.joined, frames |-> sync.frames, has |-> sync.has,
             last |-> sync.last]
  /\ sent \in Nat /\ clock \in Nat /\ drawn \in Nat

\* A number is known by what is left of it, among those of the last half.
Recent(n) == n \in Nat /\ n <= sent /\ sent - n < SeqWrap \div 2

\* Frames in the order they were sent.
Rising(s) ==
  /\ s \in Seq(Moments)
  /\ \A i \in 1 .. Len(s) : Recent(s[i].n) /\ s[i].seq = s[i].n % SeqWrap /\ s[i].n # 0
  /\ \A i, j \in 1 .. Len(s) : i < j => s[i].n < s[j].n

\* Frames wait in their order, none earlier than the one drawn last.
LightsOrdered ==
  /\ Rising(sync.frames)
  /\ \A i \in 1 .. Len(sync.frames) : drawn <= sync.frames[i].n
  /\ sync.has => drawn # 0 /\ Recent(drawn) /\ sync.last = drawn % SeqWrap
  /\ ~sync.has => drawn = 0

LightsInv == LightsTyped /\ LightsOrdered

\* What is left of a number of one or two rounds.
LEMMA Remainder ==
  ASSUME NEW W \in Nat \ {0}, NEW x \in Nat
  PROVE  /\ x \div W \in Nat /\ x % W \in 0 .. W - 1 /\ x = (W * (x \div W)) + (x % W)
         /\ x < W => x % W = x
         /\ W <= x /\ x < W + W => x % W = x - W
<1> DEFINE q == x \div W
           r == x % W
<1>1. q \in Nat /\ r \in 0 .. W - 1 /\ x = W * q + r
  OBVIOUS
<1> HIDE DEF q, r
<1>2. ASSUME q >= 2 PROVE W * q >= W + W
  <2>1. PICK k \in Nat : q = k + 2
    <3>1. q - 2 \in Nat /\ q = (q - 2) + 2
      BY <1>1, <1>2
    <3> QED
      BY <3>1
  <2>2. W * q = W * k + W + W /\ W * k >= 0
    BY <2>1
  <2>3. W * k \in Nat
    BY <2>1
  <2> QED
    BY <2>2, <2>3
<1>3. q = 0 => W * q = 0
  OBVIOUS
<1>4. q = 1 => W * q = W
  OBVIOUS
<1>5. q = 0 \/ q = 1 \/ q >= 2
  BY <1>1
<1>6. W * q \in Nat
  BY <1>1
<1>7. x < W => q = 0
  BY <1>1, <1>2, <1>4, <1>5, <1>6
<1>8. W <= x /\ x < W + W => q = 1
  BY <1>1, <1>2, <1>3, <1>5, <1>6
<1>9. x < W => r = x
  BY <1>1, <1>3, <1>7
<1>10. W <= x /\ x < W + W => r = x - W
  BY <1>1, <1>4, <1>8
<1> QED
  BY <1>1, <1>9, <1>10 DEF q, r

\* Two numbers less than a round apart keep their distance.
LEMMA Distance ==
  ASSUME NEW W \in Nat \ {0}, NEW n \in Nat, NEW m \in Nat, m < n, n - m < W
  PROVE  /\ (((n % W) + W) - (m % W)) % W = n - m
         /\ (((m % W) + W) - (n % W)) % W = W - (n - m)
<1> DEFINE a == n % W
           b == m % W
           p == n \div W
           q == m \div W
<1>1. /\ p \in Nat /\ a \in 0 .. W - 1 /\ n = W * p + a
      /\ q \in Nat /\ b \in 0 .. W - 1 /\ m = W * q + b
  BY Remainder
<1> HIDE DEF a, b, p, q
<1>2. a = b + (n - m) \/ a + W = b + (n - m)
  <2>1. p = q \/ p = q + 1 \/ p >= q + 2 \/ p < q
    BY <1>1
  <2>2. CASE p = q
    BY <1>1, <2>2
  <2>3. CASE p = q + 1
    <3>1. W * p = W * q + W
      BY <1>1, <2>3
    <3> QED
      BY <1>1, <3>1
  <2>4. CASE p >= q + 2
    <3>1. PICK k \in Nat : p = q + k + 2
      <4>1. p - (q + 2) \in Nat /\ p = q + (p - (q + 2)) + 2
        BY <1>1, <2>4
      <4> QED
        BY <4>1
    <3>2. W * p = W * q + W * k + W + W
      BY <1>1, <3>1
    <3>3. W * k \in Nat /\ W * q \in Nat /\ W * p \in Nat
      BY <1>1, <3>1
    <3> QED
      BY <1>1, <3>2, <3>3
  <2>5. CASE p < q
    <3>1. PICK k \in Nat : q = p + k + 1
      <4>1. q - (p + 1) \in Nat /\ q = p + (q - (p + 1)) + 1
        BY <1>1, <2>5
      <4> QED
        BY <4>1
    <3>2. W * q = W * p + W * k + W
      BY <1>1, <3>1
    <3>3. W * k \in Nat /\ W * q \in Nat /\ W * p \in Nat
      BY <1>1, <3>1
    <3> QED
      BY <1>1, <3>2, <3>3
  <2> QED
    BY <2>1, <2>2, <2>3, <2>4, <2>5
<1> DEFINE x == (a + W) - b
           y == (b + W) - a
<1>3. /\ x \in Nat /\ (x = n - m \/ x = W + (n - m))
      /\ y \in Nat /\ (y = W - (n - m) \/ y = W + (W - (n - m)))
  BY <1>1, <1>2
<1>4. n - m \in Nat /\ W - (n - m) \in Nat /\ 0 < n - m
  OBVIOUS
<1> HIDE DEF x, y
<1>5. x % W = n - m
  <2>1. x < W => x = n - m
    BY <1>3, <1>4
  <2>2. x < W \/ (W <= x /\ x < W + W /\ x - W = n - m)
    BY <1>3, <1>4
  <2> QED
    BY <1>3, <2>1, <2>2, Remainder
<1>6. y % W = W - (n - m)
  <2>1. y < W => y = W - (n - m)
    BY <1>3, <1>4
  <2>2. y < W \/ (W <= y /\ y < W + W /\ y - W = W - (n - m))
    BY <1>3, <1>4
  <2> QED
    BY <1>3, <2>1, <2>2, Remainder
<1> QED
  BY <1>5, <1>6 DEF x, y, a, b

\* seq_after tells the later of two frames of the last half.
LEMMA LaterIsAfter ==
  ASSUME sent \in Nat, NEW n, NEW m, Recent(n), Recent(m)
  PROVE  Lights!SeqAfter(n % SeqWrap, m % SeqWrap) <=> n > m
<1> DEFINE W == SeqWrap
           h == SeqWrap \div 2
           d == (((n % W) + W) - (m % W)) % W
<1>1. W \in Nat \ {0} /\ h \in Nat /\ h + h <= W
  BY HomeAssumption
<1>2. n \in Nat /\ m \in Nat /\ n - m < h /\ m - n < h
  BY <1>1 DEF Recent
<1>3. Lights!SeqAfter(n % W, m % W) <=> d \in 1 .. (h - 1)
  BY DEF Lights!SeqAfter
<1> HIDE DEF h, W, d
<1>4. CASE n > m
  <2>1. n - m < W
    BY <1>1, <1>2, <1>4
  <2>2. d = n - m
    BY <1>1, <1>2, <1>4, <2>1, Distance DEF d
  <2> QED
    BY <1>1, <1>2, <1>3, <1>4, <2>2 DEF W
<1>5. CASE n < m
  <2>1. m - n < W
    BY <1>1, <1>2, <1>5
  <2>2. d = W - (m - n)
    BY <1>1, <1>2, <1>5, <2>1, Distance DEF d
  <2> QED
    BY <1>1, <1>2, <1>3, <1>5, <2>2 DEF W
<1>6. CASE n = m
  <2>1. d = W % W
    <3>1. n % W \in 0 .. W - 1
      BY <1>1, <1>2, Remainder
    <3>2. ((n % W) + W) - (n % W) = W
      BY <1>1, <3>1
    <3> QED
      BY <1>6, <3>2 DEF d
  <2>2. W % W = 0
    BY <1>1, Remainder
  <2> QED
    BY <1>1, <1>2, <1>3, <1>6, <2>1, <2>2 DEF W
<1> QED
  BY <1>2, <1>4, <1>5, <1>6


\* What InsertAt does to a sequence.
LEMMA InsertIs ==
  ASSUME NEW S, NEW s \in Seq(S), NEW e \in S, NEW k \in 1 .. (Len(s) + 1)
  PROVE  /\ Lights!InsertAt(s, k, e) \in Seq(S)
         /\ Len(Lights!InsertAt(s, k, e)) = Len(s) + 1
         /\ \A i \in 1 .. (Len(s) + 1) :
              /\ i < k => Lights!InsertAt(s, k, e)[i] = s[i]
              /\ i = k => Lights!InsertAt(s, k, e)[i] = e
              /\ i > k => Lights!InsertAt(s, k, e)[i] = s[i - 1]
<1> DEFINE a == SubSeq(s, 1, k - 1)
           b == <<e>>
           c == SubSeq(s, k, Len(s))
           n == Len(s)
<1>1. n \in Nat /\ k \in 1 .. (n + 1) /\ \A i \in 1 .. n : s[i] \in S
  BY LenProperties, ElementOfSeq
<1>2. a \in Seq(S) /\ Len(a) = k - 1 /\ \A i \in 1 .. (k - 1) : a[i] = s[i]
  <2>1. \A i \in 1 .. (k - 1) : s[i] \in S
    BY <1>1
  <2>2. /\ a \in Seq(S) /\ Len(a) = IF 1 <= k - 1 THEN (k - 1) - 1 + 1 ELSE 0
        /\ \A i \in 1 .. (k - 1) - 1 + 1 : a[i] = s[1 + i - 1]
    BY <1>1, <2>1, SubSeqProperties
  <2>3. \A i \in 1 .. (k - 1) : i \in 1 .. (k - 1) - 1 + 1 /\ 1 + i - 1 = i
    BY <1>1
  <2> HIDE DEF a
  <2> QED
    BY <1>1, <2>2, <2>3, SMTT(30)
<1>3. c \in Seq(S) /\ Len(c) = (n + 1) - k /\ \A i \in 1 .. ((n + 1) - k) : c[i] = s[(k + i) - 1]
  <2>1. \A i \in k .. n : s[i] \in S
    BY <1>1
  <2>2. /\ c \in Seq(S) /\ Len(c) = IF k <= n THEN n - k + 1 ELSE 0
        /\ \A i \in 1 .. n - k + 1 : c[i] = s[k + i - 1]
    BY <1>1, <2>1, SubSeqProperties
  <2>3. \A i \in 1 .. ((n + 1) - k) : i \in 1 .. n - k + 1 /\ k + i - 1 = (k + i) - 1
    BY <1>1
  <2> HIDE DEF c
  <2> QED
    BY <1>1, <2>2, <2>3
<1>4. b \in Seq(S) /\ Len(b) = 1 /\ b[1] = e
  OBVIOUS
<1> HIDE DEF a, b, c, n
<1>5. /\ a \o b \in Seq(S) /\ Len(a \o b) = k
      /\ \A i \in 1 .. (k - 1) : (a \o b)[i] = s[i]
      /\ (a \o b)[k] = e
  <2>1. /\ a \o b \in Seq(S) /\ Len(a \o b) = Len(a) + Len(b)
        /\ \A i \in 1 .. Len(a) + Len(b) :
             (a \o b)[i] = IF i <= Len(a) THEN a[i] ELSE b[i - Len(a)]
    BY <1>2, <1>4, ConcatProperties
  <2> DEFINE ab == a \o b
  <2>2. /\ ab \in Seq(S) /\ Len(ab) = k
        /\ \A i \in 1 .. k : ab[i] = IF i <= k - 1 THEN a[i] ELSE b[i - (k - 1)]
    <3>1. Len(a) = k - 1 /\ Len(b) = 1 /\ (k - 1) + 1 = k
      BY <1>1, <1>2, <1>4
    <3> QED
      BY <2>1, <3>1
  <2> HIDE DEF ab
  <2>3. \A i \in 1 .. (k - 1) : ab[i] = s[i]
    <3>1. \A i \in 1 .. (k - 1) : i \in 1 .. k /\ i <= k - 1
      BY <1>1
    <3> QED
      BY <1>2, <2>2, <3>1
  <2>4. ab[k] = e
    <3>1. k \in 1 .. k /\ ~(k <= k - 1) /\ k - (k - 1) = 1
      BY <1>1
    <3> QED
      BY <1>4, <2>2, <3>1
  <2> QED
    BY <2>2, <2>3, <2>4 DEF ab
<1>6. /\ (a \o b) \o c \in Seq(S) /\ Len((a \o b) \o c) = n + 1
      /\ \A i \in 1 .. (n + 1) :
           ((a \o b) \o c)[i] = IF i <= k THEN (a \o b)[i] ELSE c[i - k]
  <2> DEFINE ab == a \o b
             abc == ab \o c
  <2>1. ab \in Seq(S) /\ c \in Seq(S) /\ Len(ab) = k /\ Len(ab) + Len(c) = n + 1
    BY <1>1, <1>3, <1>5
  <2> HIDE DEF ab
  <2>2. /\ abc \in Seq(S) /\ Len(abc) = Len(ab) + Len(c)
        /\ \A i \in 1 .. Len(ab) + Len(c) :
             abc[i] = IF i <= Len(ab) THEN ab[i] ELSE c[i - Len(ab)]
    BY <2>1, ConcatProperties
  <2> HIDE DEF abc
  <2>3. /\ abc \in Seq(S) /\ Len(abc) = n + 1
        /\ \A i \in 1 .. (n + 1) : abc[i] = IF i <= k THEN ab[i] ELSE c[i - k]
    BY <2>1, <2>2
  <2> QED
    BY <2>3 DEF ab, abc
<1>7. Lights!InsertAt(s, k, e) = (a \o b) \o c
  BY DEF Lights!InsertAt, a, b, c, n
<1>8. ASSUME NEW i \in 1 .. (n + 1), i < k  PROVE ((a \o b) \o c)[i] = s[i]
  <2>1. i <= k /\ i \in 1 .. (k - 1)
    BY <1>1, <1>8
  <2> QED
    BY <1>5, <1>6, <2>1
<1>9. ((a \o b) \o c)[k] = e
  BY <1>1, <1>5, <1>6
<1>10. ASSUME NEW i \in 1 .. (n + 1), i > k  PROVE ((a \o b) \o c)[i] = s[i - 1]
  <2>1. ((a \o b) \o c)[i] = c[i - k]
    BY <1>1, <1>6, <1>10, SMTT(30)
  <2>2. i - k \in 1 .. ((n + 1) - k) /\ (k + (i - k)) - 1 = i - 1
    BY <1>1, <1>10
  <2>3. c[i - k] = s[(k + (i - k)) - 1]
    BY <1>3, <2>2
  <2> QED
    BY <2>1, <2>2, <2>3
<1> QED
  BY <1>6, <1>7, <1>8, <1>9, <1>10 DEF n

\* A set of naturals that is not empty has a least element.
LessThan == {p \in Nat \X Nat : p[1] < p[2]}

LEMMA LessThanWellFounded == IsWellFoundedOn(LessThan, Nat)
BY NatLessThanWellFounded DEF OpToRel, LessThan

LEMMA LeastNatural ==
  ASSUME NEW T, T \subseteq Nat, T # {}
  PROVE  \E x \in T : \A y \in T : x <= y
<1>1. PICK x \in T : \A y \in T : ~(<<y, x>> \in LessThan)
  BY LessThanWellFounded, WFMin
<1>2. \A y \in T : <<y, x>> \in LessThan <=> y < x
  BY DEF LessThan
<1>3. ASSUME NEW y \in T  PROVE x <= y
  <2>1. ~(y < x) /\ x \in Nat /\ y \in Nat
    BY <1>1, <1>2
  <2> QED
    BY <2>1
<1> QED
  BY <1>3

\* What the queue holds, one frame at a time.
LEMMA Queued ==
  ASSUME NEW s, Rising(s)
  PROVE  /\ s \in Seq(Moments) /\ Len(s) \in Nat /\ DOMAIN s = 1 .. Len(s)
         /\ \A i \in 1 .. Len(s) : s[i] \in Moments /\ s[i].n \in Nat
<1>1. /\ s \in Seq(Moments) /\ Len(s) \in Nat /\ DOMAIN s = 1 .. Len(s)
      /\ \A i \in 1 .. Len(s) : s[i] \in Moments
  BY LenProperties, ElementOfSeq DEF Rising
<1> QED
  BY <1>1 DEF Moments

\* A frame is put behind the earlier ones and before the first that is not.
LEMMA PlaceOfFrame ==
  ASSUME LightsInv, NEW n, Recent(n)
  PROVE  /\ Lights!Place(sync.frames, n % SeqWrap) \in 1 .. (Len(sync.frames) + 1)
         /\ \A i \in 1 .. Len(sync.frames) :
              /\ i < Lights!Place(sync.frames, n % SeqWrap) => sync.frames[i].n < n
              /\ i = Lights!Place(sync.frames, n % SeqWrap) => n <= sync.frames[i].n
<1> DEFINE fs == sync.frames
           stop == {i \in DOMAIN fs : ~Lights!SeqAfter(n % SeqWrap, fs[i].seq)}
           at == Lights!Place(fs, n % SeqWrap)
<1>1. sent \in Nat /\ n \in Nat
  BY DEF LightsInv, LightsTyped, Recent
<1>2. /\ Len(fs) \in Nat /\ DOMAIN fs = 1 .. Len(fs)
      /\ \A i \in 1 .. Len(fs) : fs[i].n \in Nat
  BY Queued DEF LightsInv, LightsOrdered
<1>3. ASSUME NEW i \in 1 .. Len(fs)  PROVE i \in stop <=> n <= fs[i].n
  <2>1. Recent(fs[i].n) /\ fs[i].seq = fs[i].n % SeqWrap
    BY DEF LightsInv, LightsOrdered, Rising
  <2>2. Lights!SeqAfter(n % SeqWrap, fs[i].seq) <=> n > fs[i].n
    BY <1>1, <2>1, LaterIsAfter
  <2>3. n <= fs[i].n <=> ~(n > fs[i].n)
    BY <1>1, <1>2
  <2> QED
    BY <1>2, <2>2, <2>3
<1>4. stop \subseteq 1 .. Len(fs)
  BY <1>2
<1>5. at = IF stop = {} THEN Len(fs) + 1 ELSE CHOOSE i \in stop : \A j \in stop : i <= j
  BY DEF Lights!Place
<1> HIDE DEF fs, stop, at
<1>6. CASE stop = {}
  <2>1. at = Len(fs) + 1
    BY <1>5, <1>6
  <2>2. \A i \in 1 .. Len(fs) : fs[i].n < n
    BY <1>1, <1>2, <1>3, <1>6
  <2> QED
    BY <1>2, <2>1, <2>2 DEF at, fs
<1>7. CASE stop # {}
  <2>1. \E i \in stop : \A j \in stop : i <= j
    <3>1. stop \subseteq Nat
      BY <1>2, <1>4
    <3> QED
      BY <1>7, <3>1, LeastNatural
  <2>2. at \in stop /\ \A j \in stop : at <= j
    BY <1>5, <1>7, <2>1
  <2>3. at \in 1 .. Len(fs) /\ n <= fs[at].n
    BY <1>3, <1>4, <2>2
  <2>4. ASSUME NEW i \in 1 .. Len(fs), i < at  PROVE fs[i].n < n
    <3>1. i \notin stop
      BY <1>2, <2>2, <2>3, <2>4
    <3> QED
      BY <1>1, <1>2, <1>3, <3>1
  <2> QED
    BY <1>2, <2>3, <2>4 DEF at, fs
<1> QED
  BY <1>6, <1>7


\* The queue with one more frame.
LEMMA MomentInserted ==
  ASSUME NEW s \in Seq(Moments), NEW f \in Moments, NEW k \in 1 .. (Len(s) + 1)
  PROVE  /\ Lights!InsertAt(s, k, f) \in Seq(Moments)
         /\ Len(Lights!InsertAt(s, k, f)) = Len(s) + 1
         /\ \A i \in 1 .. (Len(s) + 1) :
              /\ i < k => Lights!InsertAt(s, k, f)[i] = s[i]
              /\ i = k => Lights!InsertAt(s, k, f)[i] = f
              /\ i > k => Lights!InsertAt(s, k, f)[i] = s[i - 1]
BY InsertIs

\* A frame put in its place leaves the order as it is.
LEMMA InsertRises ==
  ASSUME NEW s, Rising(s), NEW f \in Moments, NEW k \in 1 .. (Len(s) + 1),
         Recent(f.n), f.seq = f.n % SeqWrap, f.n # 0,
         \A i \in 1 .. Len(s) : /\ i < k => s[i].n < f.n
                                /\ k <= i => f.n < s[i].n
  PROVE  /\ Rising(Lights!InsertAt(s, k, f))
         /\ Len(Lights!InsertAt(s, k, f)) = Len(s) + 1
         /\ \A i \in 1 .. (Len(s) + 1) :
              \/ Lights!InsertAt(s, k, f)[i] = f
              \/ \E j \in 1 .. Len(s) : Lights!InsertAt(s, k, f)[i] = s[j]
<1> DEFINE t == Lights!InsertAt(s, k, f)
           n == Len(s)
<1>1. s \in Seq(Moments) /\ n \in Nat /\ \A i \in 1 .. n : s[i].n \in Nat
  BY Queued
<1>2. /\ t \in Seq(Moments) /\ Len(t) = n + 1
      /\ \A i \in 1 .. (n + 1) : /\ i < k => t[i] = s[i]
                                 /\ i = k => t[i] = f
                                 /\ i > k => t[i] = s[i - 1]
  BY <1>1, MomentInserted
<1>3. f.n \in Nat /\ k \in 1 .. (n + 1)
  BY DEF Moments
<1>4. /\ \A i \in 1 .. n : Recent(s[i].n) /\ s[i].seq = s[i].n % SeqWrap /\ s[i].n # 0
      /\ \A i, j \in 1 .. n : i < j => s[i].n < s[j].n
      /\ \A i \in 1 .. n : /\ i < k => s[i].n < f.n
                           /\ k <= i => f.n < s[i].n
  BY DEF Rising
<1> HIDE DEF t, n
<1>5. ASSUME NEW i \in 1 .. (n + 1)
      PROVE  \/ i < k /\ i \in 1 .. n /\ t[i] = s[i]
             \/ i = k /\ t[i] = f
             \/ i > k /\ i - 1 \in 1 .. n /\ k <= i - 1 /\ t[i] = s[i - 1]
  BY <1>1, <1>2, <1>3
<1>6. ASSUME NEW i \in 1 .. (n + 1)
      PROVE  Recent(t[i].n) /\ t[i].seq = t[i].n % SeqWrap /\ t[i].n # 0
  BY <1>4, <1>5
<1>7. ASSUME NEW i \in 1 .. (n + 1), NEW j \in 1 .. (n + 1), i < j
      PROVE  t[i].n < t[j].n
  <2>1. CASE i < k /\ j < k
    BY <1>1, <1>4, <1>5, <1>7, <2>1
  <2>2. CASE i < k /\ j = k
    BY <1>1, <1>4, <1>5, <1>7, <2>2
  <2>3. CASE i < k /\ j > k
    <3>1. i \in 1 .. n /\ j - 1 \in 1 .. n /\ i < j - 1
      BY <1>1, <1>3, <2>3
    <3>2. t[i] = s[i] /\ t[j] = s[j - 1]
      BY <1>2, <2>3
    <3> QED
      BY <1>4, <3>1, <3>2
  <2>4. CASE i = k /\ j > k
    <3>1. j - 1 \in 1 .. n /\ k <= j - 1
      BY <1>1, <1>3, <2>4
    <3>2. t[i] = f /\ t[j] = s[j - 1]
      BY <1>2, <2>4
    <3> QED
      BY <1>4, <3>1, <3>2
  <2>5. CASE i > k /\ j > k
    <3>1. i - 1 \in 1 .. n /\ j - 1 \in 1 .. n /\ i - 1 < j - 1
      BY <1>1, <1>3, <1>7, <2>5
    <3>2. t[i] = s[i - 1] /\ t[j] = s[j - 1]
      BY <1>2, <2>5
    <3> QED
      BY <1>4, <3>1, <3>2
  <2> QED
    BY <1>1, <1>3, <1>7, <2>1, <2>2, <2>3, <2>4, <2>5
<1>8. Rising(t)
  BY <1>2, <1>6, <1>7 DEF Rising
<1> QED
  BY <1>2, <1>5, <1>8 DEF t, n

\* What is left when frames at the front go.
LEMMA SuffixRises ==
  ASSUME NEW s, Rising(s), NEW k \in 1 .. Len(s)
  PROVE  /\ Rising(SubSeq(s, k, Len(s)))
         /\ \A i \in 1 .. Len(SubSeq(s, k, Len(s))) :
              \E j \in k .. Len(s) : SubSeq(s, k, Len(s))[i] = s[j]
<1> DEFINE n == Len(s)
           t == SubSeq(s, k, n)
<1>1. n \in Nat /\ \A i \in 1 .. n : s[i] \in Moments /\ s[i].n \in Nat
  BY Queued
<1>2. k \in 1 .. n /\ \A i \in k .. n : s[i] \in Moments
  BY <1>1
<1>3. /\ t \in Seq(Moments) /\ Len(t) = IF k <= n THEN n - k + 1 ELSE 0
      /\ \A i \in 1 .. n - k + 1 : t[i] = s[k + i - 1]
  BY <1>1, <1>2, SubSeqProperties
<1>4. /\ \A i \in 1 .. n : Recent(s[i].n) /\ s[i].seq = s[i].n % SeqWrap /\ s[i].n # 0
      /\ \A i, j \in 1 .. n : i < j => s[i].n < s[j].n
  BY DEF Rising
<1> HIDE DEF t, n
<1>5. Len(t) = (n + 1) - k
  BY <1>1, <1>2, <1>3
<1>6. ASSUME NEW i \in 1 .. Len(t)  PROVE (k + i) - 1 \in k .. n /\ t[i] = s[(k + i) - 1]
  <2>1. i \in 1 .. n - k + 1 /\ k + i - 1 = (k + i) - 1 /\ (k + i) - 1 \in k .. n
    BY <1>1, <1>2, <1>5
  <2> QED
    BY <1>3, <2>1
<1>7. \A i \in 1 .. Len(t) : (k + i) - 1 \in 1 .. n
  BY <1>1, <1>2, <1>5
<1>8. \A i, j \in 1 .. Len(t) : i < j => (k + i) - 1 < (k + j) - 1
  BY <1>1, <1>2, <1>5
<1>9. \A i, j \in 1 .. Len(t) : i < j => t[i].n < t[j].n
  BY <1>4, <1>6, <1>7, <1>8
<1>10. \A i \in 1 .. Len(t) :
         Recent(t[i].n) /\ t[i].seq = t[i].n % SeqWrap /\ t[i].n # 0
  BY <1>4, <1>6, <1>7
<1>11. Rising(t)
  BY <1>3, <1>9, <1>10 DEF Rising
<1> QED
  BY <1>6, <1>11 DEF t, n


\* effect_sync_push keeps the order, and takes nothing earlier than was drawn.
LEMMA PushedInOrder ==
  ASSUME LightsInv, NEW f \in Moments, Recent(f.n), f.seq = f.n % SeqWrap, f.n # 0,
         sync' = Lights!Pushed(sync, f), UNCHANGED <<sent, clock, drawn>>
  PROVE  LightsInv'
<1> DEFINE fs == sync.frames
           at == Lights!Place(fs, f.seq)
           ins == Lights!InsertAt(fs, at, f)
           full == Len(fs) = Capacity
           twice == at <= Len(fs) /\ fs[at].seq = f.seq
           new == IF full THEN Tail(ins) ELSE ins
<1>1. /\ Rising(fs) /\ Len(fs) \in Nat /\ f.n \in Nat /\ sent \in Nat
      /\ \A i \in 1 .. Len(fs) : fs[i].n \in Nat /\ fs[i].seq = fs[i].n % SeqWrap
  BY Queued DEF LightsInv, LightsOrdered, LightsTyped, Moments, Rising
<1>2. /\ at \in 1 .. (Len(fs) + 1)
      /\ \A i \in 1 .. Len(fs) : /\ i < at => fs[i].n < f.n
                                 /\ i = at => f.n <= fs[i].n
  BY PlaceOfFrame
<1>3. ASSUME ~twice, NEW i \in 1 .. Len(fs), at <= i  PROVE f.n < fs[i].n
  <2>1. at \in 1 .. Len(fs) /\ fs[at].n # f.n
    BY <1>1, <1>2, <1>3
  <2>2. f.n < fs[at].n
    BY <1>1, <1>2, <2>1
  <2>3. at = i \/ fs[at].n < fs[i].n
    <3>1. at = i \/ at < i
      BY <1>2, <1>3
    <3> QED
      BY <1>1, <2>1, <3>1 DEF Rising
  <2> QED
    BY <1>1, <2>1, <2>2, <2>3
<1>4. \/ sync' = sync
      \/ /\ ~twice /\ (sync.has => Lights!SeqAfter(f.seq, sync.last)) /\ (full => at # 1)
         /\ sync' = [sync EXCEPT !.frames = new]
  BY DEF Lights!Pushed
<1> HIDE DEF at, full, twice
<1>5. CASE sync' = sync
  BY <1>5 DEF LightsInv, LightsTyped, LightsOrdered, Rising, Recent
<1>6. CASE /\ ~twice /\ (sync.has => Lights!SeqAfter(f.seq, sync.last)) /\ (full => at # 1)
           /\ sync' = [sync EXCEPT !.frames = new]
  <2>1. drawn \in Nat /\ drawn <= f.n
    <3>1. CASE ~sync.has
      BY <1>1, <3>1 DEF LightsInv, LightsOrdered, LightsTyped
    <3>2. CASE sync.has
      <4>1. Recent(drawn) /\ sync.last = drawn % SeqWrap
        BY <3>2 DEF LightsInv, LightsOrdered
      <4>2. f.n > drawn
        BY <1>1, <1>6, <3>2, <4>1, LaterIsAfter
      <4> QED
        BY <1>1, <4>2 DEF LightsInv, LightsTyped
    <3> QED
      BY <3>1, <3>2
  <2>2. /\ Rising(ins) /\ Len(ins) = Len(fs) + 1
        /\ \A i \in 1 .. (Len(fs) + 1) : ins[i] = f \/ \E j \in 1 .. Len(fs) : ins[i] = fs[j]
    <3>1. \A i \in 1 .. Len(fs) : /\ i < at => fs[i].n < f.n
                                  /\ at <= i => f.n < fs[i].n
      BY <1>2, <1>3, <1>6
    <3> HIDE DEF fs
    <3> QED
      BY <1>1, <1>2, <3>1, InsertRises
  <2> HIDE DEF ins
  <2>3. /\ Rising(new)
        /\ \A i \in 1 .. Len(new) : \E j \in 1 .. (Len(fs) + 1) : new[i] = ins[j]
    <3>1. CASE ~full
      BY <2>2, <3>1
    <3>2. CASE full
      <4>1. Len(fs) # 0
        BY <3>2, HomeAssumption DEF full
      <4>2. 2 \in 1 .. Len(ins) /\ ins # << >> /\ ins \in Seq(Moments)
        BY <1>1, <2>2, <4>1 DEF Rising
      <4>3. new = SubSeq(ins, 2, Len(ins))
        BY <3>2, <4>2, TailIsSubSeq
      <4>4. /\ Rising(new)
            /\ \A i \in 1 .. Len(new) : \E j \in 2 .. Len(ins) : new[i] = ins[j]
        <5>1. /\ Rising(SubSeq(ins, 2, Len(ins)))
              /\ \A i \in 1 .. Len(SubSeq(ins, 2, Len(ins))) :
                   \E j \in 2 .. Len(ins) : SubSeq(ins, 2, Len(ins))[i] = ins[j]
          BY <2>2, <4>2, SuffixRises
        <5> QED
          BY <4>3, <5>1, Zenon
      <4>5. \A j \in 2 .. Len(ins) : j \in 1 .. (Len(fs) + 1)
        BY <1>1, <2>2
      <4> QED
        BY <4>4, <4>5
    <3> QED
      BY <3>1, <3>2
  <2> HIDE DEF new
  <2>4. ASSUME NEW i \in 1 .. Len(new)  PROVE drawn <= new[i].n
    <3>1. new[i] = f \/ \E j \in 1 .. Len(fs) : new[i] = fs[j]
      BY <2>2, <2>3
    <3>2. \A j \in 1 .. Len(fs) : drawn <= fs[j].n
      BY DEF LightsInv, LightsOrdered
    <3> QED
      BY <2>1, <3>1, <3>2
  <2>5. /\ sync' = [joined |-> sync.joined, frames |-> new, has |-> sync.has,
                    last |-> sync.last]
    BY <1>6 DEF LightsInv, LightsTyped
  <2>6. sync'.frames = new /\ (sync'.has <=> sync.has) /\ sync'.last = sync.last
        /\ sync' = [joined |-> sync'.joined, frames |-> sync'.frames, has |-> sync'.has,
                    last |-> sync'.last]
    BY <2>5
  <2>7. Rising(sync.frames)'
    BY <2>3, <2>6 DEF Rising, Recent
  <2> QED
    BY <2>3, <2>4, <2>6, <2>7 DEF LightsInv, LightsTyped, LightsOrdered, Rising, Recent
<1> QED
  BY <1>4, <1>5, <1>6


\* The frame that is drawn waits in the queue, before what is kept.
LEMMA SampleDraws ==
  ASSUME LightsInv, Lights!Sample
  PROVE  /\ LightsInv'
         /\ drawn <= drawn'
<1> DEFINE fs == sync.frames
           ready == {i \in DOMAIN fs : \A j \in 1 .. i : fs[j].due <= clock}
           before == CHOOSE i \in ready : \A j \in ready : j <= i
<1>1. /\ Rising(fs) /\ Len(fs) \in Nat /\ DOMAIN fs = 1 .. Len(fs)
      /\ \A i \in 1 .. Len(fs) : fs[i].n \in Nat
  BY Queued DEF LightsInv, LightsOrdered
<1>2. /\ ready # {} /\ drawn' = fs[before].n /\ UNCHANGED <<sent, clock>>
      /\ sync' = [sync EXCEPT !.frames = SubSeq(fs, before, Len(fs)), !.has = TRUE,
                  !.last = fs[before].seq]
  BY DEF Lights!Sample
<1> HIDE DEF fs
<1>3. before \in ready
  <2> DEFINE left == {Len(fs) - i : i \in ready}
  <2>1. left \subseteq Nat /\ left # {}
    BY <1>1, <1>2
  <2>2. PICK x \in left : \A y \in left : x <= y
    BY <2>1, LeastNatural
  <2>3. PICK i \in ready : x = Len(fs) - i
    BY <2>2
  <2>4. \A j \in ready : j <= i
    <3>1. \A j \in ready : Len(fs) - i <= Len(fs) - j
      BY <2>2, <2>3
    <3>2. \A j \in ready : j \in Int
      BY <1>1
    <3> QED
      BY <1>1, <2>3, <3>1, <3>2
  <2> HIDE DEF ready
  <2> QED
    BY <2>3, <2>4
<1>4. before \in 1 .. Len(fs)
  BY <1>1, <1>3
<1> DEFINE kept == SubSeq(fs, before, Len(fs))
<1> HIDE DEF ready, before, kept
<1>5. /\ Rising(kept)
      /\ \A i \in 1 .. Len(kept) : \E j \in before .. Len(fs) : kept[i] = fs[j]
  BY <1>1, <1>4, SuffixRises DEF kept
<1>6. /\ Recent(fs[before].n) /\ fs[before].seq = fs[before].n % SeqWrap
      /\ fs[before].n # 0 /\ drawn <= fs[before].n
  BY <1>1, <1>4 DEF LightsInv, LightsOrdered, Rising, fs
<1>7. ASSUME NEW i \in 1 .. Len(kept)  PROVE fs[before].n <= kept[i].n
  <2>1. PICK j \in before .. Len(fs) : kept[i] = fs[j]
    BY <1>5
  <2>2. j = before \/ fs[before].n < fs[j].n
    <3>1. j \in 1 .. Len(fs) /\ (j = before \/ before < j)
      BY <1>1, <1>4
    <3> QED
      BY <1>1, <1>4, <3>1 DEF Rising
  <2> QED
    BY <1>1, <1>4, <2>1, <2>2
<1>8. sync' = [joined |-> sync.joined, frames |-> kept, has |-> TRUE, last |-> fs[before].seq]
  BY <1>2 DEF LightsInv, LightsTyped, kept
<1>9. /\ sync'.frames = kept /\ sync'.has /\ sync'.last = fs[before].seq
      /\ sync' = [joined |-> sync'.joined, frames |-> sync'.frames, has |-> sync'.has,
                  last |-> sync'.last]
  BY <1>8
<1>10. Rising(sync.frames)'
  <2>1. sent' = sent /\ sync'.frames = kept
    BY <1>2, <1>9
  <2> QED
    BY <1>5, <2>1 DEF Rising, Recent
<1>11. Recent(drawn)' /\ sync'.last = drawn' % SeqWrap /\ drawn' # 0 /\ drawn' \in Nat
  BY <1>1, <1>2, <1>4, <1>6, <1>9 DEF Recent
<1>12. LightsTyped'
  BY <1>2, <1>9, <1>11 DEF LightsInv, LightsTyped
<1>13. LightsOrdered'
  BY <1>2, <1>7, <1>9, <1>10, <1>11 DEF LightsOrdered
<1> QED
  BY <1>2, <1>6, <1>12, <1>13 DEF LightsInv

\* A frame that arrives is one of the last half.
LEMMA ReceivedInOrder ==
  ASSUME LightsInv, Lights!Receive
  PROVE  LightsInv'
<1>1. sent \in Nat /\ clock \in Nat
  BY DEF LightsInv, LightsTyped
<1>2. PICK n \in (IF sent > Window THEN sent - Window ELSE 1) .. sent, lead \in 0 .. Lead :
        sync' = Lights!Pushed(sync, [n |-> n, seq |-> n % SeqWrap, received |-> clock,
                                     due |-> clock + lead])
  BY DEF Lights!Receive
<1>3. UNCHANGED <<sent, clock, drawn>>
  BY DEF Lights!Receive
<1> DEFINE f == [n |-> n, seq |-> n % SeqWrap, received |-> clock, due |-> clock + lead]
<1>4. Recent(n) /\ n # 0
  <2>1. Window \in Nat /\ Window < SeqWrap \div 2 /\ SeqWrap \div 2 \in Nat
    BY HomeAssumption
  <2>2. n \in Nat /\ n # 0 /\ n <= sent /\ sent - n <= Window
    <3>1. CASE sent > Window
      <4>1. n \in (sent - Window) .. sent
        BY <3>1
      <4> QED
        BY <1>1, <2>1, <3>1, <4>1
    <3>2. CASE ~(sent > Window)
      <4>1. n \in 1 .. sent
        BY <3>2
      <4> QED
        BY <1>1, <2>1, <3>2, <4>1
    <3> QED
      BY <3>1, <3>2
  <2> QED
    BY <1>1, <2>1, <2>2 DEF Recent
<1>5. f \in Moments
  <2>1. n % SeqWrap \in Nat
    BY <1>4, HomeAssumption DEF Recent
  <2>2. clock + lead \in Nat
    BY <1>1
  <2> QED
    BY <1>1, <1>4, <2>1, <2>2 DEF Moments, Recent
<1>6. f.n = n /\ f.seq = n % SeqWrap
  OBVIOUS
<1> HIDE DEF f
<1>7. sync' = Lights!Pushed(sync, f)
  BY <1>2 DEF f
<1> QED
  BY <1>3, <1>4, <1>5, <1>6, <1>7, PushedInOrder

\* The lamp never goes back to an earlier moment of the music
\* (EffectSync!DrawsForward: effect_sync_push, effect_sync_sample), however many
\* frames were sent and whatever the width of their numbers.
THEOREM LampGoesForward == Spec => DrawsForward
<1>1. Init => LightsInv
  <2> SUFFICES ASSUME Init PROVE LightsInv
    OBVIOUS
  <2>1. sync = Lights!NotJoined /\ sent = 0 /\ clock = 0 /\ drawn = 0
    BY DEF Init, Lights!Init
  <2>2. << >> \in Seq(Moments) /\ Len(<< >>) = 0
    BY EmptySeq
  <2> QED
    BY <2>1, <2>2 DEF Lights!NotJoined, LightsInv, LightsTyped, LightsOrdered, Rising
<1>2. LightsInv /\ [Next]_vars => LightsInv' /\ (drawn' # 0 => drawn <= drawn')
  <2> SUFFICES ASSUME LightsInv, [Next]_vars
               PROVE  LightsInv' /\ (drawn' # 0 => drawn <= drawn')
    OBVIOUS
  <2> USE DEF LightsInv, LightsTyped, LightsOrdered
  <2>1. CASE UNCHANGED syncVars
    BY <2>1 DEF syncVars, Rising, Recent
  <2>2. CASE Lights!Join \/ Lights!Leave
    <3>1. UNCHANGED <<sent, clock>> /\ drawn' = 0
      BY <2>2 DEF Lights!Join, Lights!Leave
    <3>2. \E b \in BOOLEAN : sync' = [joined |-> b, frames |-> << >>, has |-> FALSE, last |-> 0]
      BY <2>2 DEF Lights!Join, Lights!Leave, Lights!NotJoined
    <3>3. /\ sync' = [joined |-> sync'.joined, frames |-> sync'.frames, has |-> sync'.has,
                      last |-> sync'.last]
          /\ sync'.frames = << >> /\ ~sync'.has
      BY <3>2
    <3>4. << >> \in Seq(Moments) /\ Len(<< >>) = 0
      BY EmptySeq
    <3>5. LightsTyped'
      BY <3>1, <3>3
    <3>6. LightsOrdered'
      BY <3>1, <3>3, <3>4 DEF Rising
    <3> QED
      BY <3>1, <3>5, <3>6
  <2>4. CASE Lights!Send
    <3>1. /\ sent' = sent + 1 /\ UNCHANGED <<sync, clock, drawn>>
          /\ \A i \in DOMAIN sync.frames : sent' - sync.frames[i].n < SeqWrap \div 2
          /\ drawn # 0 => sent' - drawn < SeqWrap \div 2
      BY <2>4 DEF Lights!Send
    <3>2. DOMAIN sync.frames = 1 .. Len(sync.frames)
      BY Queued
    <3>3. \A i \in 1 .. Len(sync.frames) : Recent(sync.frames[i].n)'
      BY <3>1, <3>2 DEF Rising, Recent
    <3>4. sync.has => Recent(drawn)'
      BY <3>1 DEF Recent
    <3>5. Rising(sync.frames)'
      BY <3>1, <3>3 DEF Rising
    <3>6. LightsOrdered'
      BY <3>1, <3>4, <3>5
    <3>7. LightsTyped' /\ drawn <= drawn'
      BY <3>1
    <3> QED
      BY <3>6, <3>7
  <2>5. CASE Lights!Receive
    BY <2>5, ReceivedInOrder DEF Lights!Receive
  <2>6. CASE Lights!Sample
    BY <2>6, SampleDraws
  <2>7. CASE Lights!Passes
    BY <2>7 DEF Lights!Passes, Rising, Recent
  <2>8. CASE OnboardingNext \/ TalkNext \/ InPog \/ InHa
    BY <2>1, <2>8 DEF OnboardingNext, TalkNext, InPog, InHa
  <2> QED
    BY <2>1, <2>2, <2>4, <2>5, <2>6, <2>7, <2>8
       DEF Next, vars, LightsNext, Lights!Next,
           StarterRuns, EnrolRuns, DiscoveryRuns,
           MqttRuns, StateTaskRuns, StateTicks, SoinRuns, HomeActs, PogEnvironment,
           HaClientRuns, HaWebRuns, HaTimerRuns, HaRtspRuns, HaEnvironment
<1>3. LightsInv /\ [Next]_vars => [drawn' # 0 => drawn' >= drawn]_syncVars
  BY <1>2 DEF LightsInv, LightsTyped
<1>4. Spec => [][drawn' # 0 => drawn' >= drawn]_syncVars
  BY <1>1, <1>2, <1>3, PTL DEF Spec, Steps
<1> QED
  BY <1>4 DEF DrawsForward, Lights!DrawsForward, Lights!syncVars, syncVars

-----------------------------------------------------------------------------
(* The turns with POG AI and the microphone (Voice).                        *)

Job == worker.run.job
At == worker.run.at

\* A record of the worker's run has its fields.
RunNow(run) ==
  /\ run = [job |-> run.job, at |-> run.at, session |-> run.session, mic |-> run.mic,
            listening |-> run.listening, tts |-> run.tts, done |-> run.done,
            failed |-> run.failed, hit |-> run.hit, messages |-> run.messages]
  /\ run.session \in BOOLEAN /\ run.mic \in BOOLEAN /\ run.listening \in BOOLEAN
  /\ run.tts \in BOOLEAN /\ run.done \in BOOLEAN /\ run.failed \in BOOLEAN
  /\ run.hit \in BOOLEAN

VoiceFields ==
  /\ turn = [busy |-> turn.busy, pairing |-> turn.pairing, finish |-> turn.finish,
             cancel |-> turn.cancel, by |-> turn.by]
  /\ wake = [enabled |-> wake.enabled, suspended |-> wake.suspended,
             active |-> wake.active, fresh |-> wake.fresh, pending |-> wake.pending,
             waiting |-> wake.waiting]
  /\ worker = [queue |-> worker.queue, run |-> worker.run]
  /\ RunNow(worker.run)
  /\ worker.queue = << >> \/ \E j \in {"turn", "wake", "enrol"} : worker.queue = <<j>>
  /\ page = [op |-> page.op, at |-> page.at, active |-> page.active]
  /\ cap \in [Talk!Owners -> {"off", "run", "ended", "failed"}]
  /\ told \in [Talk!Owners -> {"no", "ended", "failed"}]
  /\ live \in [Talk!Owners -> BOOLEAN]

\* A capture has an owner who waits for its last callback before it frees what
\* the callback uses.
VoiceContexts ==
  /\ \A o \in Talk!Owners : told[o] # "no" => cap[o] = "off"
  /\ cap["turn"] # "off" =>
       /\ Job = "turn" /\ At \in {"loop", "hush", "drain", "cleanup", "stop", "wait"}
       /\ worker.run.mic /\ worker.run.listening
  /\ Job = "turn" /\ At \in {"loop", "hush", "drain", "cleanup", "stop", "wait"} => live["turn"]
  /\ cap["wake"] # "off" => Job = "wake" /\ At \in {"listen", "stop", "wait"}
  /\ Job = "wake" /\ At \in {"listen", "stop", "wait"} => live["wake"]
  /\ cap["sample"] # "off" => page.op = "sample" /\ page.at = "wait"
  /\ page.op = "sample" /\ page.at = "wait" => live["sample"]
  /\ page.at = "capture" => page.op \in {"test", "sample"}

\* Reply audio is admitted by the turn that runs, once it listens no more.
VoiceQuiet ==
  /\ worker.run.tts => Job = "turn" /\ worker.run.session /\ ~worker.run.listening
  /\ Job = "turn" /\ At = "hush" => worker.run.session
  /\ ring => worker.run.tts

\* s_control, and the one monitor that is queued or runs.
VoiceControl ==
  /\ control = "timer" <=> timer # "idle"
  /\ control = "web" <=> page.at = "save"
  /\ page.at = "save" => page.op \in {"mute", "unmute", "forget"}
  /\ Job = "wake" \/ worker.queue = <<"wake">> =>
       wake.active /\ timer \notin {"check", "claim", "submit", "monitor"}
  /\ ~(Job = "wake" /\ worker.queue = <<"wake">>)
  /\ timer = "monitor" => wake.active

\* A stale word is nobody's: not the current monitor's, not pending, not the
\* timer's.
VoiceFresh ==
  /\ Job = "wake" /\ worker.run.hit /\ wake.fresh => heard # "stale"
  /\ wake.pending \/ timer \in {"check", "claim"} => heard # "stale"
  /\ turn.by # "stale"

VoiceInv == VoiceFields /\ VoiceContexts /\ VoiceQuiet /\ VoiceControl /\ VoiceFresh


\* What a message, and a failure, leave of the run.
LEMMA VoiceMessage ==
  ASSUME VoiceFields, NEW run, RunNow(run), Talk!With(run)
  PROVE  /\ worker' = [queue |-> worker.queue, run |-> worker'.run]
         /\ RunNow(worker'.run)
         /\ Job' = run.job /\ At' = run.at /\ worker'.run.session = run.session
         /\ worker'.run.mic = run.mic /\ worker'.run.listening = run.listening
         /\ worker'.run.tts = run.tts
<1>1. worker' = [worker EXCEPT !.run = [run EXCEPT !.messages = @ + 1]]
  BY DEF Talk!With
<1>2. worker' = [queue |-> worker.queue, run |-> [run EXCEPT !.messages = @ + 1]]
  BY <1>1 DEF VoiceFields
<1>3. worker'.run = [run EXCEPT !.messages = @ + 1]
  BY <1>2
<1> QED
  BY <1>2, <1>3 DEF RunNow, Job, At

\* A step to another place of the job.
LEMMA VoiceMoves ==
  ASSUME VoiceFields, NEW at, Talk!To(at)
  PROVE  /\ worker' = [queue |-> worker.queue, run |-> worker'.run]
         /\ RunNow(worker'.run) /\ worker'.queue = worker.queue
         /\ Job' = Job /\ At' = at /\ worker'.run.session = worker.run.session
         /\ worker'.run.mic = worker.run.mic
         /\ worker'.run.listening = worker.run.listening
         /\ worker'.run.tts = worker.run.tts /\ worker'.run.hit = worker.run.hit
BY DEF Talk!To, VoiceFields, RunNow, Job, At

LEMMA VoiceFails ==
  ASSUME VoiceFields, Talk!Fails
  PROVE  /\ worker' = [queue |-> worker.queue, run |-> worker'.run]
         /\ RunNow(worker'.run)
         /\ Job' = Job /\ At' = "cleanup" /\ worker'.run.session = worker.run.session
         /\ worker'.run.mic = worker.run.mic
         /\ worker'.run.listening = worker.run.listening
         /\ worker'.run.tts = worker.run.tts
BY DEF Talk!Fails, VoiceFields, RunNow, Job, At

\* The capture tasks keep it: they tell their owner last.
LEMMA VoiceCapture ==
  ASSUME VoiceInv,
         Talk!CaptureRuns \/ Talk!CaptureBreaks
  PROVE  VoiceInv'
<1> USE DEF VoiceInv, Job, At, Talk!Owners
<1>1. CASE Talk!CaptureRuns
  BY <1>1 DEF Talk!CaptureRuns, Talk!CaptureEnds, Talk!CallbackStops,
     Talk!CallbackTells, Talk!Leaves, Talk!Stopped, VoiceFields, RunNow,
     VoiceContexts, VoiceQuiet, VoiceControl, VoiceFresh
<1>2. CASE Talk!CaptureBreaks
  BY <1>2 DEF Talk!CaptureBreaks, Talk!CaptureFails, Talk!Leaves, VoiceFields,
     RunNow, VoiceContexts, VoiceQuiet, VoiceControl, VoiceFresh
<1> QED
  BY <1>1, <1>2

\* The timer keeps it: it holds s_control from its decision to its submission.
LEMMA VoiceTimer ==
  ASSUME VoiceInv,
         Talk!TimerLooks \/ Talk!TimerDecides \/ Talk!TimerChecks \/
         Talk!TimerClaims \/ Talk!TimerSubmits \/ Talk!RetryDue
  PROVE  VoiceInv'
<1> USE DEF VoiceInv, Job, At, Talk!Owners
<1>1. CASE Talk!TimerLooks
  <2>1. VoiceFields'
    BY <1>1, ZenonT(40) DEF Talk!TimerLooks, Talk!Available, VoiceFields, RunNow
  <2>2. VoiceContexts'
    BY <1>1 DEF Talk!TimerLooks, Talk!Available, VoiceFields, VoiceContexts
  <2>3. VoiceQuiet'
    BY <1>1 DEF Talk!TimerLooks, Talk!Available, VoiceFields, VoiceContexts,
       VoiceQuiet
  <2>4. VoiceControl'
    BY <1>1 DEF Talk!TimerLooks, Talk!Available, VoiceFields, VoiceControl
  <2>5. VoiceFresh'
    BY <1>1 DEF Talk!TimerLooks, Talk!Available, VoiceFields, VoiceControl,
       VoiceFresh
  <2> QED
    BY <2>1, <2>2, <2>3, <2>4, <2>5
<1>2. CASE Talk!TimerDecides
  <2>1. VoiceFields'
    BY <1>2 DEF Talk!TimerDecides, Talk!Goes, VoiceFields, RunNow
  <2>2. VoiceContexts'
    BY <1>2 DEF Talk!TimerDecides, Talk!Goes, VoiceFields, VoiceContexts
  <2>3. VoiceQuiet'
    BY <1>2 DEF Talk!TimerDecides, Talk!Goes, VoiceFields, VoiceContexts,
       VoiceQuiet
  <2>4. VoiceControl'
    BY <1>2 DEF Talk!TimerDecides, Talk!Goes, VoiceFields, VoiceControl
  <2>5. VoiceFresh'
    BY <1>2 DEF Talk!TimerDecides, Talk!Goes, VoiceFields, VoiceControl,
       VoiceFresh
  <2> QED
    BY <2>1, <2>2, <2>3, <2>4, <2>5
<1>3. CASE Talk!TimerChecks
  <2>1. VoiceFields'
    <3>1. /\ wake' = wake \/ wake' = [wake EXCEPT !.active = FALSE, !.waiting = TRUE]
          /\ UNCHANGED <<turn, worker, page, cap, told, live>>
      BY <1>3 DEF Talk!TimerChecks, Talk!TimerRefused, Talk!RefusedWake
    <3> QED
      BY <3>1 DEF VoiceFields
  <2>2. VoiceContexts'
    BY <1>3 DEF Talk!TimerChecks, Talk!MayBegin, Talk!TimerRefused,
       Talk!RefusedWake, VoiceFields, VoiceContexts
  <2>3. VoiceQuiet'
    BY <1>3 DEF Talk!TimerChecks, Talk!MayBegin, Talk!TimerRefused,
       Talk!RefusedWake, VoiceFields, VoiceContexts, VoiceQuiet
  <2>4. VoiceControl'
    BY <1>3 DEF Talk!TimerChecks, Talk!MayBegin, Talk!TimerRefused,
       Talk!RefusedWake, VoiceFields, VoiceControl
  <2>5. VoiceFresh'
    BY <1>3 DEF Talk!TimerChecks, Talk!MayBegin, Talk!TimerRefused,
       Talk!RefusedWake, VoiceFields, VoiceControl, VoiceFresh
  <2> QED
    BY <2>1, <2>2, <2>3, <2>4, <2>5
<1>4. CASE Talk!TimerClaims
  <2>1. VoiceFields'
    <3>1. /\ wake' = wake \/ wake' = [wake EXCEPT !.active = FALSE, !.waiting = TRUE]
          /\ \/ turn' = turn
             \/ turn' = [turn EXCEPT !.busy = TRUE, !.finish = FALSE, !.cancel = FALSE,
                                     !.by = heard]
          /\ UNCHANGED <<worker, page, cap, told, live>>
      BY <1>4 DEF Talk!TimerClaims, Talk!Claimed, Talk!TimerRefused, Talk!RefusedWake
    <3> QED
      BY <3>1 DEF VoiceFields
  <2>2. VoiceContexts'
    BY <1>4 DEF Talk!TimerClaims, Talk!MayClaim, Talk!Claimed,
       Talk!TimerRefused, Talk!RefusedWake, VoiceFields, VoiceContexts
  <2>3. VoiceQuiet'
    BY <1>4 DEF Talk!TimerClaims, Talk!MayClaim, Talk!Claimed,
       Talk!TimerRefused, Talk!RefusedWake, VoiceFields, VoiceContexts,
       VoiceQuiet
  <2>4. VoiceControl'
    BY <1>4 DEF Talk!TimerClaims, Talk!MayClaim, Talk!Claimed,
       Talk!TimerRefused, Talk!RefusedWake, VoiceFields, VoiceControl
  <2>5. VoiceFresh'
    BY <1>4 DEF Talk!TimerClaims, Talk!MayClaim, Talk!Claimed,
       Talk!TimerRefused, Talk!RefusedWake, VoiceFields, VoiceControl,
       VoiceFresh
  <2> QED
    BY <2>1, <2>2, <2>3, <2>4, <2>5
<1>5. CASE Talk!TimerSubmits
  <2>1. VoiceFields'
    BY <1>5 DEF Talk!TimerSubmits, Talk!QueueFree, Talk!Submitted,
       Talk!TimerRefused, Talk!RefusedWake, Talk!Released, VoiceFields, RunNow
  <2>2. VoiceContexts'
    BY <1>5 DEF Talk!TimerSubmits, Talk!QueueFree, Talk!Submitted,
       Talk!TimerRefused, Talk!RefusedWake, Talk!Released, VoiceFields,
       VoiceContexts
  <2>3. VoiceQuiet'
    BY <1>5 DEF Talk!TimerSubmits, Talk!QueueFree, Talk!Submitted,
       Talk!TimerRefused, Talk!RefusedWake, Talk!Released, VoiceFields,
       VoiceContexts, VoiceQuiet
  <2>4. VoiceControl'
    BY <1>5 DEF Talk!TimerSubmits, Talk!QueueFree, Talk!Submitted,
       Talk!TimerRefused, Talk!RefusedWake, Talk!Released, VoiceFields,
       VoiceControl
  <2>5. VoiceFresh'
    BY <1>5 DEF Talk!TimerSubmits, Talk!QueueFree, Talk!Submitted,
       Talk!TimerRefused, Talk!RefusedWake, Talk!Released, VoiceFields,
       VoiceControl, VoiceFresh
  <2> QED
    BY <2>1, <2>2, <2>3, <2>4, <2>5
<1>6. CASE Talk!RetryDue
  <2>1. VoiceFields'
    BY <1>6 DEF Talk!RetryDue, VoiceFields, RunNow
  <2>2. VoiceContexts'
    BY <1>6 DEF Talk!RetryDue, VoiceFields, VoiceContexts
  <2>3. VoiceQuiet'
    BY <1>6 DEF Talk!RetryDue, VoiceFields, VoiceContexts, VoiceQuiet
  <2>4. VoiceControl'
    BY <1>6 DEF Talk!RetryDue, VoiceFields, VoiceControl
  <2>5. VoiceFresh'
    BY <1>6 DEF Talk!RetryDue, VoiceFields, VoiceControl, VoiceFresh
  <2> QED
    BY <2>1, <2>2, <2>3, <2>4, <2>5
<1> QED
  BY <1>1, <1>2, <1>3, <1>4, <1>5, <1>6

\* The worker keeps it, with an association or the monitor.
LEMMA VoiceWorker ==
  ASSUME VoiceInv,
         Talk!TakeJob \/ Talk!EnrolEnds \/ Talk!MonitorBegins \/
         Talk!MonitorHears \/ Talk!MonitorBreaks \/ Talk!MonitorLeaves \/
         Talk!StopCapture("wake") \/ Talk!CaptureOver("wake") \/
         Talk!MonitorFrees \/ Talk!MonitorPublishes
  PROVE  VoiceInv'
<1> USE DEF VoiceInv, Job, At, Talk!Owners
<1>1. CASE Talk!TakeJob
  <2>1. PICK j \in {"turn", "wake", "enrol"} : worker.queue = <<j>>
    BY <1>1 DEF Talk!TakeJob, Talk!QueueFree, VoiceFields
  <2>2. /\ Job = "none" /\ UNCHANGED <<turn, ring, wake, cap, told, live, timer, control, page, heard>>
    BY <1>1 DEF Talk!TakeJob, Talk!Run
  <2>3. /\ worker' = [queue |-> << >>, run |-> [Talk!NoJob EXCEPT !.job = j, !.at = "begin"]]
    BY <1>1, <2>1 DEF Talk!TakeJob
  <2>4. /\ worker' = [queue |-> << >>, run |-> worker'.run] /\ RunNow(worker'.run)
        /\ Job' = j /\ At' = "begin" /\ worker'.queue = << >>
        /\ ~worker'.run.tts /\ ~worker'.run.hit
    BY <2>3 DEF Talk!NoJob, RunNow
  <2>5. VoiceFields'
    BY <2>2, <2>4 DEF VoiceFields, RunNow
  <2>6. VoiceContexts'
    BY <2>2, <2>4 DEF VoiceFields, VoiceContexts
  <2>7. VoiceQuiet' /\ VoiceFresh'
    BY <2>2, <2>4 DEF VoiceContexts, VoiceQuiet, VoiceFresh
  <2>8. VoiceControl'
    <3>1. << >> # <<"wake">>
      OBVIOUS
    <3> QED
      BY <2>1, <2>2, <2>4, <3>1 DEF VoiceControl
  <2> QED
    BY <2>5, <2>6, <2>7, <2>8
<1>2. CASE Talk!EnrolEnds
  <2>1. VoiceFields'
    BY <1>2 DEF Talk!EnrolEnds, Talk!Run, Talk!Job, Talk!JobEnds, Talk!NoJob,
       VoiceFields, RunNow
  <2>2. VoiceContexts'
    BY <1>2 DEF Talk!EnrolEnds, Talk!Run, Talk!Job, Talk!JobEnds, Talk!NoJob,
       VoiceFields, VoiceContexts, RunNow
  <2>3. VoiceQuiet'
    BY <1>2 DEF Talk!EnrolEnds, Talk!Run, Talk!Job, Talk!JobEnds, Talk!NoJob,
       VoiceFields, VoiceContexts, VoiceQuiet, RunNow
  <2>4. VoiceControl'
    BY <1>2 DEF Talk!EnrolEnds, Talk!Run, Talk!Job, Talk!JobEnds, Talk!NoJob,
       VoiceFields, VoiceControl, RunNow
  <2>5. VoiceFresh'
    BY <1>2 DEF Talk!EnrolEnds, Talk!Run, Talk!Job, Talk!JobEnds, Talk!NoJob,
       VoiceFields, VoiceControl, VoiceFresh, RunNow
  <2> QED
    BY <2>1, <2>2, <2>3, <2>4, <2>5
<1>3. CASE Talk!MonitorBegins
  <2>1. /\ Job = "wake" /\ At = "begin"
        /\ UNCHANGED <<turn, ring, wake, timer, control, page, heard>>
    BY <1>3 DEF Talk!MonitorBegins, Talk!Run, Talk!Job
  <2>2. PICK at \in {"listen", "finish"} :
          /\ Talk!To(at)
          /\ at = "listen" => /\ cap' = [cap EXCEPT !["wake"] = "run"]
                             /\ told' = [told EXCEPT !["wake"] = "no"]
                             /\ live' = [live EXCEPT !["wake"] = TRUE]
          /\ at = "finish" => UNCHANGED <<cap, told, live>>
    BY <1>3 DEF Talk!MonitorBegins, Talk!Captured
  <2>3. /\ worker' = [queue |-> worker.queue, run |-> worker'.run] /\ RunNow(worker'.run)
        /\ Job' = "wake" /\ At' = at /\ worker'.queue = worker.queue
        /\ worker'.run.tts = worker.run.tts /\ worker'.run.hit = worker.run.hit
    BY <2>1, <2>2, VoiceMoves
  <2>4. VoiceFields'
    <3>1. CASE at = "listen"
      <4>1. /\ cap' \in [Talk!Owners -> {"off", "run", "ended", "failed"}]
            /\ told' \in [Talk!Owners -> {"no", "ended", "failed"}]
            /\ live' \in [Talk!Owners -> BOOLEAN]
        <5>1. cap' = [cap EXCEPT !["wake"] = "run"] /\ told' = [told EXCEPT !["wake"] = "no"]
          BY <2>2, <3>1
        <5>2. live' = [live EXCEPT !["wake"] = TRUE]
          BY <2>2, <3>1
        <5> QED
          BY <5>1, <5>2 DEF VoiceFields
      <4> QED
        BY <2>1, <2>3, <4>1 DEF VoiceFields
    <3>2. CASE at = "finish"
      BY <2>1, <2>2, <2>3, <3>2 DEF VoiceFields
    <3> QED
      BY <3>1, <3>2
  <2>5. VoiceContexts'
    <3>1. CASE at = "listen"
      BY <2>1, <2>2, <2>3, <3>1 DEF VoiceFields, VoiceContexts
    <3>2. CASE at = "finish"
      BY <2>1, <2>2, <2>3, <3>2 DEF VoiceFields, VoiceContexts
    <3> QED
      BY <3>1, <3>2
  <2>6. VoiceQuiet' /\ VoiceControl' /\ VoiceFresh'
    BY <2>1, <2>3 DEF VoiceQuiet, VoiceControl, VoiceFresh
  <2> QED
    BY <2>4, <2>5, <2>6
<1>4. CASE Talk!MonitorHears
  <2>1. VoiceFields'
    BY <1>4 DEF Talk!MonitorHears, Talk!Run, Talk!Job, VoiceFields, RunNow
  <2>2. VoiceContexts'
    BY <1>4 DEF Talk!MonitorHears, Talk!Run, Talk!Job, VoiceFields,
       VoiceContexts, RunNow
  <2>3. VoiceQuiet'
    BY <1>4 DEF Talk!MonitorHears, Talk!Run, Talk!Job, VoiceFields,
       VoiceContexts, VoiceQuiet, RunNow
  <2>4. VoiceControl'
    BY <1>4 DEF Talk!MonitorHears, Talk!Run, Talk!Job, VoiceFields,
       VoiceControl, RunNow
  <2>5. VoiceFresh'
    BY <1>4 DEF Talk!MonitorHears, Talk!Run, Talk!Job, VoiceFields,
       VoiceControl, VoiceFresh, RunNow
  <2> QED
    BY <2>1, <2>2, <2>3, <2>4, <2>5
<1>5. CASE Talk!MonitorBreaks
  <2>1. VoiceFields'
    BY <1>5 DEF Talk!MonitorBreaks, Talk!Run, Talk!Job, VoiceFields, RunNow
  <2>2. VoiceContexts'
    BY <1>5 DEF Talk!MonitorBreaks, Talk!Run, Talk!Job, VoiceFields,
       VoiceContexts, RunNow
  <2>3. VoiceQuiet'
    BY <1>5 DEF Talk!MonitorBreaks, Talk!Run, Talk!Job, VoiceFields,
       VoiceContexts, VoiceQuiet, RunNow
  <2>4. VoiceControl'
    BY <1>5 DEF Talk!MonitorBreaks, Talk!Run, Talk!Job, VoiceFields,
       VoiceControl, RunNow
  <2>5. VoiceFresh'
    BY <1>5 DEF Talk!MonitorBreaks, Talk!Run, Talk!Job, VoiceFields,
       VoiceControl, VoiceFresh, RunNow
  <2> QED
    BY <2>1, <2>2, <2>3, <2>4, <2>5
<1>6. CASE Talk!MonitorLeaves
  BY <1>6 DEF Talk!MonitorLeaves, Talk!Run, Talk!Job, Talk!To, VoiceFields,
     RunNow, VoiceContexts, VoiceQuiet, VoiceControl, VoiceFresh
<1>7. CASE Talk!StopCapture("wake")
  BY <1>7 DEF Talk!StopCapture, Talk!Run, Talk!Job, Talk!To, Talk!Stopped,
     VoiceFields, RunNow, VoiceContexts, VoiceQuiet, VoiceControl, VoiceFresh
<1>8. CASE Talk!CaptureOver("wake")
  BY <1>8 DEF Talk!CaptureOver, Talk!Run, Talk!Job, Talk!To,
     Talk!CallbackOver, VoiceFields, RunNow, VoiceContexts, VoiceQuiet,
     VoiceControl, VoiceFresh
<1>9. CASE Talk!MonitorFrees
  BY <1>9 DEF Talk!MonitorFrees, Talk!Run, Talk!Job, Talk!To, Talk!Freed,
     VoiceFields, RunNow, VoiceContexts, VoiceQuiet, VoiceControl, VoiceFresh
<1>10. CASE Talk!MonitorPublishes
  <2>1. VoiceFields'
    BY <1>10 DEF Talk!MonitorPublishes, Talk!Run, Talk!Job, Talk!JobEnds,
       Talk!NoJob, VoiceFields, RunNow
  <2>2. VoiceContexts'
    BY <1>10 DEF Talk!MonitorPublishes, Talk!Run, Talk!Job, Talk!JobEnds,
       Talk!NoJob, VoiceFields, VoiceContexts, RunNow
  <2>3. VoiceQuiet'
    BY <1>10 DEF Talk!MonitorPublishes, Talk!Run, Talk!Job, Talk!JobEnds,
       Talk!NoJob, VoiceFields, VoiceContexts, VoiceQuiet, RunNow
  <2>4. VoiceControl'
    BY <1>10 DEF Talk!MonitorPublishes, Talk!Run, Talk!Job, Talk!JobEnds,
       Talk!NoJob, VoiceFields, VoiceControl, RunNow
  <2>5. VoiceFresh'
    BY <1>10 DEF Talk!MonitorPublishes, Talk!Run, Talk!Job, Talk!JobEnds,
       Talk!NoJob, VoiceFields, VoiceControl, VoiceFresh, RunNow
  <2> QED
    BY <2>1, <2>2, <2>3, <2>4, <2>5
<1> QED
  BY <1>1, <1>2, <1>3, <1>4, <1>5, <1>6, <1>7, <1>8, <1>9, <1>10

\* A turn keeps it, whatever POG AI says and whenever it fails.
LEMMA VoiceTurn ==
  ASSUME VoiceInv,
         Talk!TurnBegins \/ Talk!TurnFails \/ Talk!Hushed \/ Talk!FinishHeard
         \/ Talk!Thinking \/ Talk!LoopLeft \/ Talk!Drained \/ Talk!Cleanup \/
         Talk!StopCapture("turn") \/ Talk!CaptureOver("turn") \/ Talk!TurnFrees
         \/ Talk!TurnEnd \/ Talk!Hello \/ Talk!TtsStart \/ Talk!Audio \/
         Talk!TtsStop \/ Talk!Abort \/ Talk!SpeakerReads
  PROVE  VoiceInv'
<1> USE DEF VoiceInv, Job, At, Talk!Owners
<1>1. CASE Talk!TurnBegins
  <2>1. /\ Job = "turn" /\ At = "begin" /\ Job' = "turn" /\ At' \in {"loop", "cleanup"}
        /\ worker' = [queue |-> worker.queue, run |-> worker'.run] /\ RunNow(worker'.run)
        /\ worker'.queue = worker.queue /\ worker'.run.session = worker.run.session /\ worker'.run.tts = worker.run.tts
        /\ worker'.run.listening = worker.run.listening
        /\ live' = [live EXCEPT !["turn"] = TRUE]
        /\ UNCHANGED <<turn, ring, wake, cap, told, timer, control, page, heard>>
    <3>1. CASE Talk!To("loop")
      BY <1>1, <3>1, VoiceMoves DEF Talk!TurnBegins, Talk!Run, Talk!Job
    <3>2. CASE Talk!Fails
      BY <1>1, <3>2, VoiceFails DEF Talk!TurnBegins, Talk!Run, Talk!Job
    <3> QED
      BY <1>1, <3>1, <3>2 DEF Talk!TurnBegins
  <2>2. VoiceFields'
    BY <2>1 DEF VoiceFields
  <2>3. VoiceContexts'
    BY <2>1, <2>2 DEF VoiceFields, VoiceContexts
  <2>4. VoiceQuiet'
    BY <2>1 DEF VoiceContexts, VoiceQuiet
  <2>5. VoiceControl'
    BY <2>1 DEF VoiceControl
  <2>6. VoiceFresh'
    BY <2>1 DEF VoiceFresh
  <2> QED
    BY <2>2, <2>3, <2>4, <2>5, <2>6
<1>2. CASE Talk!TurnFails
  <2>1. VoiceFields'
    BY <1>2 DEF Talk!TurnFails, Talk!Run, Talk!Looping, Talk!Job, Talk!Fails,
       VoiceFields, RunNow
  <2>2. VoiceContexts'
    BY <1>2 DEF Talk!TurnFails, Talk!Run, Talk!Looping, Talk!Job, Talk!Fails,
       VoiceFields, VoiceContexts, RunNow
  <2>3. VoiceQuiet'
    BY <1>2 DEF Talk!TurnFails, Talk!Run, Talk!Looping, Talk!Job, Talk!Fails,
       VoiceFields, VoiceContexts, VoiceQuiet, RunNow
  <2>4. VoiceControl'
    BY <1>2 DEF Talk!TurnFails, Talk!Run, Talk!Looping, Talk!Job, Talk!Fails,
       VoiceFields, VoiceControl, RunNow
  <2>5. VoiceFresh'
    BY <1>2 DEF Talk!TurnFails, Talk!Run, Talk!Looping, Talk!Job, Talk!Fails,
       VoiceFields, VoiceControl, VoiceFresh, RunNow
  <2> QED
    BY <2>1, <2>2, <2>3, <2>4, <2>5
<1>3. CASE Talk!Hushed
  <2>1. /\ Job = "turn" /\ At = "hush" /\ told["turn"] # "no"
        /\ UNCHANGED <<turn, ring, wake, cap, told, live, timer, control, page, heard>>
    BY <1>3 DEF Talk!Hushed, Talk!Run, Talk!Job, Talk!CallbackOver
  <2>2. /\ worker' = [queue |-> worker.queue, run |-> worker'.run] /\ RunNow(worker'.run)
        /\ Job' = "turn" /\ At' = "loop" /\ worker'.queue = worker.queue
        /\ worker'.run.session = worker.run.session /\ worker'.run.tts
        /\ ~worker'.run.listening
    <3>1. PICK w : w = [worker.run EXCEPT !.at = "loop", !.listening = FALSE, !.tts = TRUE]
      OBVIOUS
    <3>2. worker' = [queue |-> worker.queue, run |-> w]
      BY <1>3, <3>1 DEF Talk!Hushed, VoiceFields
    <3>3. /\ RunNow(w) /\ w.job = Job /\ w.at = "loop" /\ w.tts /\ ~w.listening
          /\ w.session = worker.run.session
      BY <3>1 DEF VoiceFields, RunNow
    <3> QED
      BY <2>1, <3>2, <3>3
  <2>3. VoiceFields'
    BY <2>1, <2>2 DEF VoiceFields
  <2>4. VoiceContexts'
    BY <2>1, <2>2 DEF VoiceFields, VoiceContexts
  <2>5. VoiceQuiet'
    BY <2>1, <2>2 DEF VoiceQuiet
  <2>6. VoiceControl'
    BY <2>1, <2>2 DEF VoiceControl
  <2>7. VoiceFresh'
    BY <2>1, <2>2 DEF VoiceFresh
  <2> QED
    BY <2>3, <2>4, <2>5, <2>6, <2>7
<1>4. CASE Talk!FinishHeard
  <2>1. VoiceFields'
    BY <1>4 DEF Talk!FinishHeard, Talk!Run, Talk!Looping, Talk!Job,
       Talk!Stopped, VoiceFields, RunNow
  <2>2. VoiceContexts'
    BY <1>4 DEF Talk!FinishHeard, Talk!Run, Talk!Looping, Talk!Job,
       Talk!Stopped, VoiceFields, VoiceContexts, RunNow
  <2>3. VoiceQuiet'
    BY <1>4 DEF Talk!FinishHeard, Talk!Run, Talk!Looping, Talk!Job,
       Talk!Stopped, VoiceFields, VoiceContexts, VoiceQuiet, RunNow
  <2>4. VoiceControl'
    BY <1>4 DEF Talk!FinishHeard, Talk!Run, Talk!Looping, Talk!Job,
       Talk!Stopped, VoiceFields, VoiceControl, RunNow
  <2>5. VoiceFresh'
    BY <1>4 DEF Talk!FinishHeard, Talk!Run, Talk!Looping, Talk!Job,
       Talk!Stopped, VoiceFields, VoiceControl, VoiceFresh, RunNow
  <2> QED
    BY <2>1, <2>2, <2>3, <2>4, <2>5
<1>5. CASE Talk!Thinking
  <2>1. /\ Job = "turn" /\ At = "loop" /\ Job' = "turn" /\ At' \in {"loop", "cleanup"}
        /\ told["turn"] # "no" /\ worker' = [queue |-> worker.queue, run |-> worker'.run] /\ RunNow(worker'.run)
        /\ worker'.queue = worker.queue
        /\ worker'.run.session = worker.run.session /\ worker'.run.tts = worker.run.tts
        /\ worker'.run.listening => worker.run.listening
        /\ UNCHANGED <<turn, ring, wake, cap, told, live, timer, control, page, heard>>
    <3>1. CASE Talk!Fails
      BY <1>5, <3>1, VoiceFails DEF Talk!Thinking, Talk!Looping, Talk!Run, Talk!Job
    <3>2. CASE worker' = [worker EXCEPT !.run.listening = FALSE]
      BY <1>5, <3>2 DEF Talk!Thinking, Talk!Looping, Talk!Run, Talk!Job, VoiceFields, RunNow
    <3> QED
      BY <1>5, <3>1, <3>2 DEF Talk!Thinking
  <2>2. VoiceFields'
    BY <2>1 DEF VoiceFields
  <2>3. VoiceContexts'
    BY <2>1, <2>2 DEF VoiceFields, VoiceContexts
  <2>4. VoiceQuiet'
    BY <2>1 DEF VoiceContexts, VoiceQuiet
  <2>5. VoiceControl'
    BY <2>1 DEF VoiceControl
  <2>6. VoiceFresh'
    BY <2>1 DEF VoiceFresh
  <2> QED
    BY <2>2, <2>3, <2>4, <2>5, <2>6
<1>6. CASE Talk!LoopLeft
  BY <1>6 DEF Talk!LoopLeft, Talk!Run, Talk!Job, Talk!To, VoiceFields, RunNow,
     VoiceContexts, VoiceQuiet, VoiceControl, VoiceFresh
<1>7. CASE Talk!Drained
  <2>1. /\ Job = "turn" /\ At = "drain" /\ Job' = "turn" /\ At' = "cleanup"
        /\ worker' = [queue |-> worker.queue, run |-> worker'.run] /\ RunNow(worker'.run)
        /\ worker'.queue = worker.queue /\ worker'.run.mic = worker.run.mic
        /\ worker'.run.session = worker.run.session /\ worker'.run.tts = worker.run.tts
        /\ worker'.run.listening = worker.run.listening
        /\ UNCHANGED <<turn, ring, wake, cap, told, live, timer, control, page, heard>>
    <3>1. CASE Talk!To("cleanup")
      BY <1>7, <3>1, VoiceMoves DEF Talk!Drained, Talk!Run, Talk!Job
    <3>2. CASE Talk!Fails
      BY <1>7, <3>2, VoiceFails DEF Talk!Drained, Talk!Run, Talk!Job
    <3> QED
      BY <1>7, <3>1, <3>2 DEF Talk!Drained
  <2>2. VoiceFields'
    BY <2>1 DEF VoiceFields
  <2>3. VoiceContexts'
    BY <2>1, <2>2 DEF VoiceFields, VoiceContexts
  <2>4. VoiceQuiet'
    BY <2>1 DEF VoiceContexts, VoiceQuiet
  <2>5. VoiceControl'
    BY <2>1 DEF VoiceControl
  <2>6. VoiceFresh'
    BY <2>1 DEF VoiceFresh
  <2> QED
    BY <2>2, <2>3, <2>4, <2>5, <2>6
<1>8. CASE Talk!Cleanup
  BY <1>8 DEF Talk!Cleanup, Talk!Run, Talk!Job, Talk!To, VoiceFields, RunNow,
     VoiceContexts, VoiceQuiet, VoiceControl, VoiceFresh
<1>9. CASE Talk!StopCapture("turn")
  BY <1>9 DEF Talk!StopCapture, Talk!Run, Talk!Job, Talk!To, Talk!Stopped,
     VoiceFields, RunNow, VoiceContexts, VoiceQuiet, VoiceControl, VoiceFresh
<1>10. CASE Talk!CaptureOver("turn")
  BY <1>10 DEF Talk!CaptureOver, Talk!Run, Talk!Job, Talk!To,
     Talk!CallbackOver, VoiceFields, RunNow, VoiceContexts, VoiceQuiet,
     VoiceControl, VoiceFresh
<1>11. CASE Talk!TurnFrees
  BY <1>11 DEF Talk!TurnFrees, Talk!Run, Talk!Job, Talk!To, Talk!Freed,
     VoiceFields, RunNow, VoiceContexts, VoiceQuiet, VoiceControl, VoiceFresh
<1>12. CASE Talk!TurnEnd
  <2>1. VoiceFields'
    BY <1>12 DEF Talk!TurnEnd, Talk!Run, Talk!Job, Talk!JobEnds, Talk!NoJob,
       VoiceFields, RunNow
  <2>2. VoiceContexts'
    BY <1>12 DEF Talk!TurnEnd, Talk!Run, Talk!Job, Talk!JobEnds, Talk!NoJob,
       VoiceFields, VoiceContexts, RunNow
  <2>3. VoiceQuiet'
    BY <1>12 DEF Talk!TurnEnd, Talk!Run, Talk!Job, Talk!JobEnds, Talk!NoJob,
       VoiceFields, VoiceContexts, VoiceQuiet, RunNow
  <2>4. VoiceControl'
    BY <1>12 DEF Talk!TurnEnd, Talk!Run, Talk!Job, Talk!JobEnds, Talk!NoJob,
       VoiceFields, VoiceControl, RunNow
  <2>5. VoiceFresh'
    BY <1>12 DEF Talk!TurnEnd, Talk!Run, Talk!Job, Talk!JobEnds, Talk!NoJob,
       VoiceFields, VoiceControl, VoiceFresh, RunNow
  <2> QED
    BY <2>1, <2>2, <2>3, <2>4, <2>5
<1>13. CASE Talk!Hello
  <2>1. /\ Job = "turn" /\ At = "loop" /\ ~worker.run.session
        /\ UNCHANGED <<turn, ring, wake, live, timer, control, page, heard>>
    BY <1>13 DEF Talk!Hello, Talk!Says, Talk!Looping, Talk!Run, Talk!Job
  <2>2. /\ worker' = [queue |-> worker.queue, run |-> worker'.run] /\ RunNow(worker'.run)
        /\ Job' = "turn" /\ At' \in {"loop", "cleanup"} /\ worker'.run.tts = worker.run.tts
        /\ \/ /\ UNCHANGED <<cap, told>> /\ worker'.run.mic = worker.run.mic
              /\ worker'.run.listening = worker.run.listening
           \/ /\ cap' = [cap EXCEPT !["turn"] = "run"] /\ told' = [told EXCEPT !["turn"] = "no"]
              /\ At' = "loop" /\ worker'.run.mic /\ worker'.run.listening
    <3>1. RunNow(worker.run)
      BY DEF VoiceFields
    <3>2. PICK done : done = [worker.run EXCEPT !.session = TRUE, !.done = TRUE]
      OBVIOUS
    <3>3. PICK open : open = [worker.run EXCEPT !.session = TRUE, !.mic = TRUE, !.listening = TRUE]
      OBVIOUS
    <3>4. /\ RunNow(done) /\ done.job = Job /\ done.at = At /\ done.mic = worker.run.mic
          /\ done.listening = worker.run.listening /\ done.tts = worker.run.tts
      BY <3>1, <3>2 DEF RunNow
    <3>5. /\ RunNow(open) /\ open.job = Job /\ open.at = At /\ open.mic /\ open.listening
          /\ open.tts = worker.run.tts
      BY <3>1, <3>3 DEF RunNow
    <3>6. \/ Talk!With(done) /\ UNCHANGED <<cap, told>>
          \/ Talk!With(open) /\ Talk!Captured("turn")
          \/ Talk!Fails /\ UNCHANGED <<cap, told>>
      BY <1>13, <3>2, <3>3 DEF Talk!Hello, Talk!Run
    <3>7. CASE Talk!With(done) /\ UNCHANGED <<cap, told>>
      BY <2>1, <3>4, <3>7, VoiceMessage
    <3>8. CASE Talk!With(open) /\ Talk!Captured("turn")
      BY <2>1, <3>5, <3>8, VoiceMessage DEF Talk!Captured
    <3>9. CASE Talk!Fails /\ UNCHANGED <<cap, told>>
      BY <2>1, <3>9, VoiceFails
    <3> QED
      BY <3>6, <3>7, <3>8, <3>9
  <2>3. VoiceFields'
    BY <2>1, <2>2 DEF VoiceFields, RunNow
  <2>4. VoiceContexts'
    BY <2>1, <2>2 DEF VoiceFields, VoiceContexts
  <2>5. VoiceQuiet'
    BY <2>1, <2>2 DEF VoiceQuiet
  <2>6. VoiceControl'
    <3>1. worker'.queue = worker.queue
      BY <2>2
    <3> QED
      BY <2>1, <2>2, <3>1 DEF VoiceControl
  <2>7. VoiceFresh'
    BY <2>1, <2>2 DEF VoiceFresh
  <2> QED
    BY <2>3, <2>4, <2>5, <2>6, <2>7
<1>14. CASE Talk!TtsStart
  <2>1. /\ Job = "turn" /\ At = "loop" /\ worker.run.session
        /\ UNCHANGED <<turn, ring, wake, cap, told, live, timer, control, page, heard>>
    BY <1>14 DEF Talk!TtsStart, Talk!Says, Talk!Looping, Talk!Run, Talk!Job
  <2>2. /\ worker' = [queue |-> worker.queue, run |-> worker'.run] /\ RunNow(worker'.run)
        /\ Job' = "turn" /\ At' \in {"loop", "hush"} /\ worker'.run.session
        /\ worker'.run.mic = worker.run.mic /\ worker'.run.listening = worker.run.listening
        /\ worker'.run.tts => ~worker.run.listening \/ worker.run.tts
        /\ worker.run.tts => worker'.run.tts
    <3>1. RunNow(worker.run)
      BY DEF VoiceFields
    <3>2. PICK hush : hush = [worker.run EXCEPT !.at = "hush"]
      OBVIOUS
    <3>3. PICK tts : tts = [worker.run EXCEPT !.tts = TRUE]
      OBVIOUS
    <3>4. /\ RunNow(hush) /\ hush.job = Job /\ hush.at = "hush" /\ hush.mic = worker.run.mic
          /\ hush.listening = worker.run.listening /\ hush.tts = worker.run.tts
          /\ hush.session = worker.run.session
      BY <3>1, <3>2 DEF RunNow
    <3>5. /\ RunNow(tts) /\ tts.job = Job /\ tts.at = At /\ tts.mic = worker.run.mic
          /\ tts.listening = worker.run.listening /\ tts.tts
          /\ tts.session = worker.run.session
      BY <3>1, <3>3 DEF RunNow
    <3>6. Talk!With(hush) \/ (~worker.run.listening /\ Talk!With(tts))
      <4>1. Talk!Admits
        BY <1>14 DEF Talk!TtsStart
      <4>2. CASE worker.run.listening
        BY <4>1, <4>2, <3>1, <3>2 DEF Talk!Admits, Talk!Run, RunNow
      <4>3. CASE ~worker.run.listening
        BY <4>1, <4>3, <3>1, <3>3 DEF Talk!Admits, Talk!Run, RunNow
      <4> QED
        BY <4>2, <4>3
    <3>7. CASE Talk!With(hush)
      BY <2>1, <3>4, <3>7, VoiceMessage
    <3>8. CASE ~worker.run.listening /\ Talk!With(tts)
      BY <2>1, <3>5, <3>8, VoiceMessage
    <3> QED
      BY <3>6, <3>7, <3>8
  <2>3. VoiceFields'
    BY <2>1, <2>2 DEF VoiceFields, RunNow
  <2>4. VoiceContexts'
    BY <2>1, <2>2 DEF VoiceFields, VoiceContexts
  <2>5. VoiceQuiet'
    BY <2>1, <2>2 DEF VoiceQuiet
  <2>6. VoiceControl'
    <3>1. worker'.queue = worker.queue
      BY <2>2
    <3> QED
      BY <2>1, <2>2, <3>1 DEF VoiceControl
  <2>7. VoiceFresh'
    BY <2>1, <2>2 DEF VoiceFresh
  <2> QED
    BY <2>3, <2>4, <2>5, <2>6, <2>7
<1>15. CASE Talk!Audio
  <2>1. VoiceFields'
    BY <1>15 DEF Talk!Audio, Talk!Run, Talk!Says, Talk!Looping, Talk!Job,
       Talk!With, VoiceFields, RunNow
  <2>2. VoiceContexts'
    BY <1>15 DEF Talk!Audio, Talk!Run, Talk!Says, Talk!Looping, Talk!Job,
       Talk!With, VoiceFields, VoiceContexts, RunNow
  <2>3. VoiceQuiet'
    BY <1>15 DEF Talk!Audio, Talk!Run, Talk!Says, Talk!Looping, Talk!Job,
       Talk!With, VoiceFields, VoiceContexts, VoiceQuiet, RunNow
  <2>4. VoiceControl'
    BY <1>15 DEF Talk!Audio, Talk!Run, Talk!Says, Talk!Looping, Talk!Job,
       Talk!With, VoiceFields, VoiceControl, RunNow
  <2>5. VoiceFresh'
    BY <1>15 DEF Talk!Audio, Talk!Run, Talk!Says, Talk!Looping, Talk!Job,
       Talk!With, VoiceFields, VoiceControl, VoiceFresh, RunNow
  <2> QED
    BY <2>1, <2>2, <2>3, <2>4, <2>5
<1>16. CASE Talk!TtsStop
  <2>1. VoiceFields'
    BY <1>16 DEF Talk!TtsStop, Talk!Run, Talk!Says, Talk!Looping, Talk!Job,
       Talk!With, VoiceFields, RunNow
  <2>2. VoiceContexts'
    BY <1>16 DEF Talk!TtsStop, Talk!Run, Talk!Says, Talk!Looping, Talk!Job,
       Talk!With, VoiceFields, VoiceContexts, RunNow
  <2>3. VoiceQuiet'
    BY <1>16 DEF Talk!TtsStop, Talk!Run, Talk!Says, Talk!Looping, Talk!Job,
       Talk!With, VoiceFields, VoiceContexts, VoiceQuiet, RunNow
  <2>4. VoiceControl'
    BY <1>16 DEF Talk!TtsStop, Talk!Run, Talk!Says, Talk!Looping, Talk!Job,
       Talk!With, VoiceFields, VoiceControl, RunNow
  <2>5. VoiceFresh'
    BY <1>16 DEF Talk!TtsStop, Talk!Run, Talk!Says, Talk!Looping, Talk!Job,
       Talk!With, VoiceFields, VoiceControl, VoiceFresh, RunNow
  <2> QED
    BY <2>1, <2>2, <2>3, <2>4, <2>5
<1>17. CASE Talk!Abort
  <2>1. VoiceFields'
    BY <1>17 DEF Talk!Abort, Talk!Run, Talk!Says, Talk!Looping, Talk!Job,
       Talk!With, Talk!Stopped, VoiceFields, RunNow
  <2>2. VoiceContexts'
    BY <1>17 DEF Talk!Abort, Talk!Run, Talk!Says, Talk!Looping, Talk!Job,
       Talk!With, Talk!Stopped, VoiceFields, VoiceContexts, RunNow
  <2>3. VoiceQuiet'
    BY <1>17 DEF Talk!Abort, Talk!Run, Talk!Says, Talk!Looping, Talk!Job,
       Talk!With, Talk!Stopped, VoiceFields, VoiceContexts, VoiceQuiet, RunNow
  <2>4. VoiceControl'
    BY <1>17 DEF Talk!Abort, Talk!Run, Talk!Says, Talk!Looping, Talk!Job,
       Talk!With, Talk!Stopped, VoiceFields, VoiceControl, RunNow
  <2>5. VoiceFresh'
    BY <1>17 DEF Talk!Abort, Talk!Run, Talk!Says, Talk!Looping, Talk!Job,
       Talk!With, Talk!Stopped, VoiceFields, VoiceControl, VoiceFresh, RunNow
  <2> QED
    BY <2>1, <2>2, <2>3, <2>4, <2>5
<1>18. CASE Talk!SpeakerReads
  BY <1>18 DEF Talk!SpeakerReads, VoiceFields, RunNow, VoiceContexts,
     VoiceQuiet, VoiceControl, VoiceFresh
<1> QED
  BY <1>1, <1>2, <1>3, <1>4, <1>5, <1>6, <1>7, <1>8, <1>9, <1>10, <1>11, <1>12, <1>13, <1>14, <1>15, <1>16, <1>17, <1>18

\* The web task keeps it between the steps of a handler.
LEMMA VoiceWeb ==
  ASSUME VoiceInv,
         Talk!Awaited \/ Talk!StartChecks \/ Talk!StartClaims \/
         Talk!StartSubmits \/ Talk!Configured \/ Talk!ForgetClaims \/
         Talk!ForgetErases \/ Talk!EnrolSubmits \/ Talk!Cancels \/
         Talk!CancelStops \/ Talk!MayTest \/ Talk!TestCaptures \/
         Talk!SampleEnds \/ Talk!UpdateOver
  PROVE  VoiceInv'
<1> USE DEF VoiceInv, Job, At, Talk!Owners
<1>1. CASE Talk!Awaited
  BY <1>1 DEF Talk!Awaited, Talk!Next1, VoiceFields, RunNow, VoiceContexts,
     VoiceQuiet, VoiceControl, VoiceFresh
<1>2. CASE Talk!StartChecks
  BY <1>2 DEF Talk!StartChecks, Talk!Web, Talk!MayBegin, Talk!Next1,
     Talk!Replies, Talk!WebIdle, VoiceFields, RunNow, VoiceContexts,
     VoiceQuiet, VoiceControl, VoiceFresh
<1>3. CASE Talk!StartClaims
  <2>1. VoiceFields'
    BY <1>3, ZenonT(40) DEF Talk!StartClaims, Talk!Web, Talk!MayClaim, Talk!Claimed,
       Talk!Next1, Talk!Replies, Talk!WebIdle, VoiceFields, RunNow
  <2>2. VoiceContexts'
    BY <1>3 DEF Talk!StartClaims, Talk!Web, Talk!MayClaim, Talk!Claimed,
       Talk!Next1, Talk!Replies, Talk!WebIdle, VoiceFields, VoiceContexts
  <2>3. VoiceQuiet'
    BY <1>3 DEF Talk!StartClaims, Talk!Web, Talk!MayClaim, Talk!Claimed,
       Talk!Next1, Talk!Replies, Talk!WebIdle, VoiceFields, VoiceContexts,
       VoiceQuiet
  <2>4. VoiceControl'
    BY <1>3 DEF Talk!StartClaims, Talk!Web, Talk!MayClaim, Talk!Claimed,
       Talk!Next1, Talk!Replies, Talk!WebIdle, VoiceFields, VoiceControl
  <2>5. VoiceFresh'
    BY <1>3 DEF Talk!StartClaims, Talk!Web, Talk!MayClaim, Talk!Claimed,
       Talk!Next1, Talk!Replies, Talk!WebIdle, VoiceFields, VoiceControl,
       VoiceFresh
  <2> QED
    BY <2>1, <2>2, <2>3, <2>4, <2>5
<1>4. CASE Talk!StartSubmits
  BY <1>4 DEF Talk!StartSubmits, Talk!Web, Talk!Replies, Talk!WebIdle,
     Talk!QueueFree, Talk!Submitted, Talk!Released, VoiceFields, RunNow,
     VoiceContexts, VoiceQuiet, VoiceControl, VoiceFresh
<1>5. CASE Talk!Configured
  <2>1. /\ \E enabled : wake' = [wake EXCEPT !.enabled = enabled, !.waiting = TRUE]
        /\ \/ page' = [op |-> "none", at |-> "idle", active |-> FALSE]
           \/ page' = [page EXCEPT !.at = "cancel"]
           \/ page' = [page EXCEPT !.at = "claim"]
    <3>1. PICK stored \in BOOLEAN :
            /\ wake' = [wake EXCEPT !.enabled = stored /\ page.op = "unmute", !.waiting = TRUE]
            /\ CASE page.op = "unmute" -> Talk!Replies
                 [] page.op = "mute" -> Talk!Next1("cancel")
                 [] page.op = "forget" -> IF stored THEN Talk!Next1("claim") ELSE Talk!Replies
      BY <1>5 DEF Talk!Configured
    <3>2. page.op \in {"mute", "unmute", "forget"}
      BY <1>5 DEF Talk!Configured, VoiceControl
    <3>3. Talk!Replies \/ Talk!Next1("cancel") \/ Talk!Next1("claim")
      BY <3>1, <3>2
    <3> QED
      BY <3>1, <3>3 DEF Talk!Replies, Talk!WebIdle, Talk!Next1
  <2>2. /\ page.at = "save" /\ control' = "none"
        /\ UNCHANGED <<turn, ring, cap, told, live, worker, timer, heard>>
    BY <1>5 DEF Talk!Configured
  <2>3. /\ wake' = [enabled |-> wake'.enabled, suspended |-> wake'.suspended,
                    active |-> wake.active, fresh |-> wake.fresh, pending |-> wake.pending,
                    waiting |-> wake'.waiting]
    BY <2>1 DEF VoiceFields
  <2>4. /\ page' = [op |-> page'.op, at |-> page'.at, active |-> page'.active]
        /\ page'.at \in {"idle", "cancel", "claim"}
    BY <2>1 DEF VoiceFields
  <2>5. wake'.active = wake.active /\ wake'.fresh = wake.fresh /\ wake'.pending = wake.pending
    BY <2>3
  <2>6. VoiceFields'
    BY <2>2, <2>3, <2>4, <2>5 DEF VoiceFields
  <2>7. VoiceContexts'
    BY <2>2, <2>4 DEF VoiceFields, VoiceContexts
  <2>8. VoiceQuiet' /\ VoiceControl' /\ VoiceFresh'
    BY <2>2, <2>4, <2>5 DEF VoiceQuiet, VoiceControl, VoiceFresh
  <2> QED
    BY <2>6, <2>7, <2>8
<1>6. CASE Talk!ForgetClaims
  BY <1>6 DEF Talk!ForgetClaims, Talk!Web, Talk!Replies, Talk!WebIdle,
     Talk!Next1, VoiceFields, RunNow, VoiceContexts, VoiceQuiet, VoiceControl,
     VoiceFresh
<1>7. CASE Talk!ForgetErases
  <2>1. VoiceFields'
    BY <1>7 DEF Talk!ForgetErases, Talk!Web, Talk!Replies, Talk!WebIdle,
       VoiceFields, RunNow
  <2>2. VoiceContexts'
    BY <1>7 DEF Talk!ForgetErases, Talk!Web, Talk!Replies, Talk!WebIdle,
       VoiceFields, VoiceContexts
  <2>3. VoiceQuiet'
    BY <1>7 DEF Talk!ForgetErases, Talk!Web, Talk!Replies, Talk!WebIdle,
       VoiceFields, VoiceContexts, VoiceQuiet
  <2>4. VoiceControl'
    BY <1>7 DEF Talk!ForgetErases, Talk!Web, Talk!Replies, Talk!WebIdle,
       VoiceFields, VoiceControl
  <2>5. VoiceFresh'
    BY <1>7 DEF Talk!ForgetErases, Talk!Web, Talk!Replies, Talk!WebIdle,
       VoiceFields, VoiceControl, VoiceFresh
  <2> QED
    BY <2>1, <2>2, <2>3, <2>4, <2>5
<1>8. CASE Talk!EnrolSubmits
  BY <1>8 DEF Talk!EnrolSubmits, Talk!Web, Talk!Replies, Talk!WebIdle,
     Talk!QueueFree, Talk!Submitted, VoiceFields, RunNow, VoiceContexts,
     VoiceQuiet, VoiceControl, VoiceFresh
<1>9. CASE Talk!Cancels
  <2>1. VoiceFields'
    BY <1>9 DEF Talk!Cancels, VoiceFields, RunNow
  <2>2. VoiceContexts'
    BY <1>9 DEF Talk!Cancels, VoiceFields, VoiceContexts
  <2>3. VoiceQuiet'
    BY <1>9 DEF Talk!Cancels, VoiceFields, VoiceContexts, VoiceQuiet
  <2>4. VoiceControl'
    BY <1>9 DEF Talk!Cancels, VoiceFields, VoiceControl
  <2>5. VoiceFresh'
    BY <1>9 DEF Talk!Cancels, VoiceFields, VoiceControl, VoiceFresh
  <2> QED
    BY <2>1, <2>2, <2>3, <2>4, <2>5
<1>10. CASE Talk!CancelStops
  BY <1>10 DEF Talk!CancelStops, Talk!Next1, Talk!Replies, Talk!WebIdle,
     Talk!Stopped, VoiceFields, RunNow, VoiceContexts, VoiceQuiet,
     VoiceControl, VoiceFresh
<1>11. CASE Talk!MayTest
  BY <1>11 DEF Talk!MayTest, Talk!Replies, Talk!WebIdle, Talk!Next1,
     VoiceFields, RunNow, VoiceContexts, VoiceQuiet, VoiceControl, VoiceFresh
<1>12. CASE Talk!TestCaptures
  <2>1. /\ page.at = "capture" /\ page.op \in {"test", "sample"}
        /\ UNCHANGED <<turn, ring, wake, worker, timer, control, heard>>
    BY <1>12 DEF Talk!TestCaptures, VoiceContexts
  <2>2. \/ page' = [op |-> "none", at |-> "idle", active |-> FALSE] /\ UNCHANGED <<cap, told, live>>
        \/ /\ cap' = [cap EXCEPT ![page.op] = "run"] /\ told' = [told EXCEPT ![page.op] = "no"]
           /\ \/ /\ page.op = "test" /\ UNCHANGED live
                 /\ page' = [op |-> "none", at |-> "idle", active |-> FALSE]
              \/ /\ page.op = "sample" /\ live' = [live EXCEPT !["sample"] = TRUE]
                 /\ page' = [page EXCEPT !.at = "wait"]
    BY <1>12, <2>1 DEF Talk!TestCaptures, Talk!Captured, Talk!Replies, Talk!WebIdle, Talk!Next1
  <2>3. /\ page' = [op |-> page'.op, at |-> page'.at, active |-> page'.active]
        /\ \/ page'.at = "idle" /\ UNCHANGED <<cap, told, live>>
           \/ /\ page.op = "test" /\ page'.at = "idle" /\ UNCHANGED live
              /\ cap' = [cap EXCEPT !["test"] = "run"] /\ told' = [told EXCEPT !["test"] = "no"]
           \/ /\ page'.op = "sample" /\ page'.at = "wait" /\ live' = [live EXCEPT !["sample"] = TRUE]
              /\ cap' = [cap EXCEPT !["sample"] = "run"] /\ told' = [told EXCEPT !["sample"] = "no"]
    BY <2>1, <2>2 DEF VoiceFields
  <2>4. VoiceFields'
    <3>1. UNCHANGED <<turn, wake, worker>>
      BY <2>1
    <3>2. /\ cap' \in [Talk!Owners -> {"off", "run", "ended", "failed"}]
          /\ told' \in [Talk!Owners -> {"no", "ended", "failed"}]
          /\ live' \in [Talk!Owners -> BOOLEAN]
      <4>1. /\ cap \in [Talk!Owners -> {"off", "run", "ended", "failed"}]
            /\ told \in [Talk!Owners -> {"no", "ended", "failed"}]
            /\ live \in [Talk!Owners -> BOOLEAN]
        BY DEF VoiceFields
      <4>2. CASE UNCHANGED <<cap, told, live>>
        BY <4>1, <4>2
      <4>3. ASSUME NEW o \in {"test", "sample"},
                   cap' = [cap EXCEPT ![o] = "run"], told' = [told EXCEPT ![o] = "no"],
                   live' = live \/ live' = [live EXCEPT !["sample"] = TRUE]
            PROVE  /\ cap' \in [Talk!Owners -> {"off", "run", "ended", "failed"}]
                   /\ told' \in [Talk!Owners -> {"no", "ended", "failed"}]
                   /\ live' \in [Talk!Owners -> BOOLEAN]
        BY <4>1, <4>3
      <4> QED
        BY <2>3, <4>2, <4>3
    <3> QED
      BY <2>3, <3>1, <3>2 DEF VoiceFields
  <2>5. VoiceContexts'
    BY <2>1, <2>3 DEF VoiceFields, VoiceContexts
  <2>6. VoiceQuiet' /\ VoiceControl' /\ VoiceFresh'
    BY <2>1, <2>3 DEF VoiceQuiet, VoiceControl, VoiceFresh
  <2> QED
    BY <2>4, <2>5, <2>6
<1>13. CASE Talk!SampleEnds
  BY <1>13 DEF Talk!SampleEnds, Talk!Web, Talk!Replies, Talk!WebIdle,
     Talk!Freed, VoiceFields, RunNow, VoiceContexts, VoiceQuiet, VoiceControl,
     VoiceFresh
<1>14. CASE Talk!UpdateOver
  <2>1. VoiceFields'
    BY <1>14 DEF Talk!UpdateOver, Talk!Web, Talk!Replies, Talk!WebIdle,
       Talk!Paused, Talk!Outdated, VoiceFields, RunNow
  <2>2. VoiceContexts'
    BY <1>14 DEF Talk!UpdateOver, Talk!Web, Talk!Replies, Talk!WebIdle,
       Talk!Paused, Talk!Outdated, VoiceFields, VoiceContexts
  <2>3. VoiceQuiet'
    BY <1>14 DEF Talk!UpdateOver, Talk!Web, Talk!Replies, Talk!WebIdle,
       Talk!Paused, Talk!Outdated, VoiceFields, VoiceContexts, VoiceQuiet
  <2>4. VoiceControl'
    BY <1>14 DEF Talk!UpdateOver, Talk!Web, Talk!Replies, Talk!WebIdle,
       Talk!Paused, Talk!Outdated, VoiceFields, VoiceControl
  <2>5. VoiceFresh'
    BY <1>14 DEF Talk!UpdateOver, Talk!Web, Talk!Replies, Talk!WebIdle,
       Talk!Paused, Talk!Outdated, VoiceFields, VoiceControl, VoiceFresh
  <2> QED
    BY <2>1, <2>2, <2>3, <2>4, <2>5
<1> QED
  BY <1>1, <1>2, <1>3, <1>4, <1>5, <1>6, <1>7, <1>8, <1>9, <1>10, <1>11, <1>12, <1>13, <1>14

\* What the user asks for keeps it, and so does the network.
LEMMA VoiceUser ==
  ASSUME VoiceInv,
         Talk!AskPause \/ Talk!AskConfigure \/ Talk!AskEnrol \/ Talk!AskFinish
         \/ Talk!AskCancel \/ Talk!AskTest \/ Talk!AskUpdate \/
         Talk!NetworkChanges
  PROVE  VoiceInv'
<1> USE DEF VoiceInv, Job, At, Talk!Owners
<1>1. CASE Talk!AskPause
  <2>1. VoiceFields'
    BY <1>1 DEF Talk!AskPause, Talk!Asks, Talk!Pauses, Talk!Paused,
       Talk!Outdated, VoiceFields, RunNow
  <2>2. VoiceContexts'
    BY <1>1 DEF Talk!AskPause, Talk!Asks, Talk!Pauses, Talk!Paused,
       Talk!Outdated, VoiceFields, VoiceContexts
  <2>3. VoiceQuiet'
    BY <1>1 DEF Talk!AskPause, Talk!Asks, Talk!Pauses, Talk!Paused,
       Talk!Outdated, VoiceFields, VoiceContexts, VoiceQuiet
  <2>4. VoiceControl'
    BY <1>1 DEF Talk!AskPause, Talk!Asks, Talk!Pauses, Talk!Paused,
       Talk!Outdated, VoiceFields, VoiceControl
  <2>5. VoiceFresh'
    BY <1>1 DEF Talk!AskPause, Talk!Asks, Talk!Pauses, Talk!Paused,
       Talk!Outdated, VoiceFields, VoiceControl, VoiceFresh
  <2> QED
    BY <2>1, <2>2, <2>3, <2>4, <2>5
<1>2. CASE Talk!AskConfigure
  <2>1. VoiceFields'
    BY <1>2 DEF Talk!AskConfigure, Talk!Asks, Talk!Available, Talk!Paused,
       Talk!Outdated, VoiceFields, RunNow
  <2>2. VoiceContexts'
    BY <1>2 DEF Talk!AskConfigure, Talk!Asks, Talk!Available, Talk!Paused,
       Talk!Outdated, VoiceFields, VoiceContexts
  <2>3. VoiceQuiet'
    BY <1>2 DEF Talk!AskConfigure, Talk!Asks, Talk!Available, Talk!Paused,
       Talk!Outdated, VoiceFields, VoiceContexts, VoiceQuiet
  <2>4. VoiceControl'
    BY <1>2 DEF Talk!AskConfigure, Talk!Asks, Talk!Available, Talk!Paused,
       Talk!Outdated, VoiceFields, VoiceControl
  <2>5. VoiceFresh'
    BY <1>2 DEF Talk!AskConfigure, Talk!Asks, Talk!Available, Talk!Paused,
       Talk!Outdated, VoiceFields, VoiceControl, VoiceFresh
  <2> QED
    BY <2>1, <2>2, <2>3, <2>4, <2>5
<1>3. CASE Talk!AskEnrol
  <2>1. VoiceFields'
    BY <1>3 DEF Talk!AskEnrol, Talk!Asks, VoiceFields, RunNow
  <2>2. VoiceContexts'
    BY <1>3 DEF Talk!AskEnrol, Talk!Asks, VoiceFields, VoiceContexts
  <2>3. VoiceQuiet'
    BY <1>3 DEF Talk!AskEnrol, Talk!Asks, VoiceFields, VoiceContexts,
       VoiceQuiet
  <2>4. VoiceControl'
    BY <1>3 DEF Talk!AskEnrol, Talk!Asks, VoiceFields, VoiceControl
  <2>5. VoiceFresh'
    BY <1>3 DEF Talk!AskEnrol, Talk!Asks, VoiceFields, VoiceControl,
       VoiceFresh
  <2> QED
    BY <2>1, <2>2, <2>3, <2>4, <2>5
<1>4. CASE Talk!AskFinish
  <2>1. VoiceFields'
    BY <1>4 DEF Talk!AskFinish, VoiceFields, RunNow
  <2>2. VoiceContexts'
    BY <1>4 DEF Talk!AskFinish, VoiceFields, VoiceContexts
  <2>3. VoiceQuiet'
    BY <1>4 DEF Talk!AskFinish, VoiceFields, VoiceContexts, VoiceQuiet
  <2>4. VoiceControl'
    BY <1>4 DEF Talk!AskFinish, VoiceFields, VoiceControl
  <2>5. VoiceFresh'
    BY <1>4 DEF Talk!AskFinish, VoiceFields, VoiceControl, VoiceFresh
  <2> QED
    BY <2>1, <2>2, <2>3, <2>4, <2>5
<1>5. CASE Talk!AskCancel
  BY <1>5 DEF Talk!AskCancel, Talk!Asks, VoiceFields, RunNow, VoiceContexts,
     VoiceQuiet, VoiceControl, VoiceFresh
<1>6. CASE Talk!AskTest
  BY <1>6 DEF Talk!AskTest, Talk!Asks, VoiceFields, RunNow, VoiceContexts,
     VoiceQuiet, VoiceControl, VoiceFresh
<1>7. CASE Talk!AskUpdate
  <2>1. VoiceFields'
    BY <1>7 DEF Talk!AskUpdate, Talk!Asks, Talk!Paused, Talk!Outdated,
       VoiceFields, RunNow
  <2>2. VoiceContexts'
    BY <1>7 DEF Talk!AskUpdate, Talk!Asks, Talk!Paused, Talk!Outdated,
       VoiceFields, VoiceContexts
  <2>3. VoiceQuiet'
    BY <1>7 DEF Talk!AskUpdate, Talk!Asks, Talk!Paused, Talk!Outdated,
       VoiceFields, VoiceContexts, VoiceQuiet
  <2>4. VoiceControl'
    BY <1>7 DEF Talk!AskUpdate, Talk!Asks, Talk!Paused, Talk!Outdated,
       VoiceFields, VoiceControl
  <2>5. VoiceFresh'
    BY <1>7 DEF Talk!AskUpdate, Talk!Asks, Talk!Paused, Talk!Outdated,
       VoiceFields, VoiceControl, VoiceFresh
  <2> QED
    BY <2>1, <2>2, <2>3, <2>4, <2>5
<1>8. CASE Talk!NetworkChanges
  BY <1>8 DEF Talk!NetworkChanges, VoiceFields, RunNow, VoiceContexts,
     VoiceQuiet, VoiceControl, VoiceFresh
<1> QED
  BY <1>1, <1>2, <1>3, <1>4, <1>5, <1>6, <1>7, <1>8

\* The parts share no variables, so the voice part keeps its invariant.
LEMMA VoiceKept == Steps => []VoiceInv
<1>1. Init => VoiceInv
  <2> SUFFICES ASSUME Init PROVE VoiceInv
    OBVIOUS
  <2>1. VoiceFields
    BY DEF Init, Talk!Init, Talk!NoJob, Talk!WebIdle, Talk!Owners, VoiceFields,
       RunNow, Job, At
  <2>2. VoiceContexts /\ VoiceQuiet
    BY DEF Init, Talk!Init, Talk!NoJob, Talk!WebIdle, Talk!Owners, VoiceContexts,
       VoiceQuiet, Job, At
  <2>3. VoiceControl /\ VoiceFresh
    BY DEF Init, Talk!Init, Talk!NoJob, Talk!WebIdle, VoiceControl, VoiceFresh, Job, At
  <2> QED
    BY <2>1, <2>2, <2>3 DEF VoiceInv
<1>2. VoiceInv /\ [Next]_vars => VoiceInv'
  <2> SUFFICES ASSUME VoiceInv, [Next]_vars PROVE VoiceInv'
    OBVIOUS
  <2>1. CASE UNCHANGED talkVars
    BY <2>1 DEF talkVars, VoiceInv, VoiceFields, VoiceContexts, VoiceQuiet, VoiceControl,
       VoiceFresh, Job, At
  <2>2. CASE Talk!Next
    BY <2>2, VoiceCapture, VoiceTimer, VoiceWorker, VoiceTurn, VoiceWeb, VoiceUser
       DEF Talk!Next, Talk!TimerRuns, Talk!WorkerRuns, Talk!WakeRuns, Talk!TurnRuns,
           Talk!PogAi, Talk!WebRuns, Talk!User
  <2>3. CASE OnboardingNext \/ LightsNext \/ InPog \/ InHa
    BY <2>1, <2>3 DEF OnboardingNext, LightsNext, InPog, InHa
  <2> QED
    BY <2>1, <2>2, <2>3
       DEF Next, vars, TalkNext, StarterRuns, EnrolRuns, DiscoveryRuns, MqttRuns,
           StateTaskRuns, StateTicks, SoinRuns, HomeActs, PogEnvironment, HaClientRuns,
           HaWebRuns, HaTimerRuns, HaRtspRuns, HaEnvironment
<1> QED
  BY <1>1, <1>2, PTL DEF Steps

\* No capture calls back into memory that was freed
\* (MCHome!CallbackContextAlive: pogmic's capture_task, conversation, monitor,
\* the handler of the sample).  An owner frees what its callback uses only when
\* it was told for the last time, which comes after the capture.
THEOREM ContextOutlivesCapture == Steps => []CallbackContextAlive
<1>1. VoiceInv => CallbackContextAlive
  BY DEF VoiceInv, VoiceContexts, CallbackContextAlive, Talk!CallbackContextAlive, Talk!Owners
<1> QED
  BY <1>1, VoiceKept, PTL

\* The microphone obeys (MCHome!MicrophoneObeys: conversation, monitor, pogwake's
\* tick and pause): only a turn that listens no more admits reply audio, and a
\* pause ends the generation whose word could still be answered.
THEOREM MicrophoneIsKept == Steps => []MicrophoneObeys
<1>1. VoiceInv => MicrophoneObeys
  BY DEF VoiceInv, VoiceFields, VoiceContexts, VoiceQuiet, VoiceFresh, MicrophoneObeys,
     Talk!MicrophoneObeys, Talk!QuietWhileSpeaking, Talk!WakeIsFresh, Talk!Run
<1> QED
  BY <1>1, VoiceKept, PTL
=============================================================================
