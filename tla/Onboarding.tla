----------------------------- MODULE Onboarding -----------------------------
(* Setting the device up over Bluetooth LE: main/network/ble_onboarding.c    *)
(* and onboarding.c, with the proof that components/pogdev keeps for them.   *)
(* A phone sends a message in frames, at most one phone at a time; what a    *)
(* message asks for is a record, and a frame carries one part of it.  The    *)
(* power may go between two writes to flash.                                 *)
EXTENDS Naturals, Sequences, FiniteSets

CONSTANTS Phones,        \* phones that may connect
          MaxParts,      \* parts a message may announce
          MaxFrames,     \* frames that are sent
          MaxLinks,      \* connections
          MaxFaults,     \* writes to flash that fail
          MaxCuts        \* power cuts

VARIABLES
  link,      \* s_conn_handle: the phone, or none
  incoming,  \* s_incoming: parts expected and parts held
  granted,   \* s_pending_assertion and s_pending_challenge: the phone whose
             \* authorisation is held, or none
  saved,     \* flash: the phone whose proof is kept, and whose network
  apply,     \* onboarding_apply under way: its step, whose assertion
  status,    \* the last status published
  restart,   \* s_restart_timer is armed
  onbHist    \* frames, links, faults, cuts; who sent the message that applied

onbVars == <<link, incoming, granted, saved, apply, status, restart, onbHist>>

None == "none"
NoMessage == [expected |-> 0, parts |-> << >>]
Resting == [at |-> "none", assertion |-> None]

Init ==
  /\ link = None
  /\ incoming = NoMessage
  /\ granted = None
  /\ saved = [proof |-> None, network |-> None]
  /\ apply = Resting
  /\ status = "ready"
  /\ restart = FALSE
  /\ onbHist = [frames |-> 0, links |-> 0, faults |-> 0, cuts |-> 0, torn |-> FALSE]

\* Mutant: a new phone inherits the authorisation of the one before
LinkResetKeepsGrant == incoming' = NoMessage /\ UNCHANGED granted

\* what both gap events do: reset_incoming, clear_pending_authorization
LinkReset == incoming' = NoMessage /\ granted' = None

\* gap_event_cb, CONNECT; main starts all this only without a network
PhoneConnects ==
  /\ link = None /\ onbHist.links < MaxLinks /\ apply.at = "none"
  /\ \E p \in Phones : link' = p
  /\ LinkReset
  /\ status' = "ready"
  /\ onbHist' = [onbHist EXCEPT !.links = @ + 1]
  /\ UNCHANGED <<saved, apply, restart>>

\* gap_event_cb, DISCONNECT: the device advertises again
PhoneLeaves ==
  /\ link # None /\ apply.at = "none"
  /\ link' = None
  /\ LinkReset
  /\ UNCHANGED <<saved, apply, status, restart, onbHist>>

Refuse == incoming' = NoMessage /\ status' = "error" /\ UNCHANGED <<granted, apply>>

\* apply_payload.  The parts of a message that hang together say what it asks
\* for; any other is no JSON.  onboarding_apply is refused once a network is
\* saved.
Kinds == {"authorize", "network", "provision"}

ApplyPayload(parts) ==
  /\ incoming' = NoMessage
  /\ LET kind == parts[1].kind
         whole == \A i \in DOMAIN parts : parts[i] = [kind |-> kind, at |-> i] IN
     \/ ~whole /\ status' = "error" /\ UNCHANGED <<granted, apply>>
     \/ whole /\ kind = "authorize" /\ granted' = link /\ status' = "authorized"
          /\ UNCHANGED apply
     \/ /\ whole /\ kind = "network" /\ granted = None
        /\ status' = "error" /\ UNCHANGED <<granted, apply>>
     \/ /\ whole
        /\ kind = "provision" \/ (kind = "network" /\ granted # None)
        /\ IF saved.network = None
           THEN /\ apply' = [at |-> "proof",
                             assertion |-> IF kind = "network" THEN granted ELSE link]
                /\ UNCHANGED status
           ELSE status' = "error" /\ UNCHANGED apply
        /\ UNCHANGED granted

\* handle_provision_frame.  A header opens a message of n parts and carries
\* the first; a continuation needs an open message; a frame that is too short,
\* too long or out of place is an error, and all but the short one start over.
Frame ==
  /\ link # None /\ apply.at = "none" /\ onbHist.frames < MaxFrames
  /\ onbHist' = [onbHist EXCEPT !.frames = @ + 1]
  /\ \/ status' = "error" /\ UNCHANGED <<incoming, granted, apply>>
     \/ Refuse
     \/ \E kind \in Kinds, n \in 1 .. MaxParts :
          LET parts == <<[kind |-> kind, at |-> 1]>> IN
          IF n = 1 THEN ApplyPayload(parts)
          ELSE /\ incoming' = [expected |-> n, parts |-> parts]
               /\ UNCHANGED <<granted, apply, status>>
     \/ /\ incoming.expected > 0
        /\ \E kind \in Kinds, at \in 2 .. MaxParts :
             LET parts == Append(incoming.parts, [kind |-> kind, at |-> at]) IN
             IF Len(parts) = incoming.expected THEN ApplyPayload(parts)
             ELSE /\ incoming' = [incoming EXCEPT !.parts = parts]
                  /\ UNCHANGED <<granted, apply, status>>
     \/ incoming.expected = 0 /\ Refuse
  /\ UNCHANGED <<link, saved, restart>>

\* Mutant: the network is written before the proof
StepsSwapped == <<"network", "proof">>

\* the order of onboarding_apply's writes
Steps == <<"proof", "network">>

\* a write of onboarding_apply: pogdev_provisioning_store, then
\* settings_set_wifi_credentials
Written ==
  LET what == IF apply.at = "proof" THEN Steps[1] ELSE Steps[2] IN
  [saved EXCEPT ![what] = apply.assertion]

\* the last write done: the authorisation is used up and the restart armed
Store ==
  /\ apply.at \in {"proof", "network"}
  /\ saved' = Written
  /\ IF apply.at = "proof"
     THEN apply' = [apply EXCEPT !.at = "network"] /\ UNCHANGED <<granted, status, restart>>
     ELSE apply' = Resting /\ granted' = None /\ status' = "joining" /\ restart' = TRUE
  /\ UNCHANGED <<link, incoming, onbHist>>

\* a write fails: a proof without a network is taken back
StoreFails ==
  /\ apply.at \in {"proof", "network"} /\ onbHist.faults < MaxFaults
  /\ saved' = IF apply.at = "network" THEN [saved EXCEPT !.proof = None] ELSE saved
  /\ apply' = Resting /\ status' = "error"
  /\ onbHist' = [onbHist EXCEPT !.faults = @ + 1]
  /\ UNCHANGED <<link, incoming, granted, restart>>

\* the second string of the network fails after the first was written: the
\* name stands without its password, and the proof is taken back
StoreTears ==
  /\ apply.at = "network" /\ onbHist.faults < MaxFaults
  /\ saved' = [proof |-> None, network |-> apply.assertion]
  /\ apply' = Resting /\ status' = "error"
  /\ onbHist' = [onbHist EXCEPT !.faults = @ + 1, !.torn = TRUE]
  /\ UNCHANGED <<link, incoming, granted, restart>>

\* restart_timer_cb, or the power goes
Booted == link' = None /\ incoming' = NoMessage /\ granted' = None /\ apply' = Resting
          /\ status' = "ready" /\ restart' = FALSE

Restart == restart /\ Booted /\ UNCHANGED <<saved, onbHist>>

PowerCut ==
  /\ onbHist.cuts < MaxCuts
  /\ Booted
  /\ onbHist' = [onbHist EXCEPT !.cuts = @ + 1]
  /\ UNCHANGED saved

Next ==
  \/ PhoneConnects \/ PhoneLeaves \/ Frame \/ Store \/ StoreFails \/ StoreTears
  \/ Restart \/ PowerCut

\* A network is applied with the assertion of the phone that sent it, given on
\* this connection: nobody uses another phone's authorisation (gap_event_cb
\* clears what is pending, apply_payload uses it).
OwnAuthorisation == apply.at # "none" => apply.assertion = link

\* "La preuve d'abord": a device with a network has the proof that came with
\* it, whatever write fails and whenever the power goes (onboarding_apply).
\* Excluded: a network whose name was written and whose password was not.
NetworkHasProof ==
  saved.network # None /\ ~onbHist.torn => saved.proof = saved.network

\* A network comes with the authority of the phone that sent it, while it is
\* applied and in flash ever after (ble_onboarding.c, onboarding_apply).
NetworkAuthorised == OwnAuthorisation /\ NetworkHasProof
=============================================================================
