------------------------------- MODULE Pairing -------------------------------
(* How a sender and the device come to share keys and switch their           *)
(* connection over to them (main/hap, main/rtsp/rtsp_crypto.c, handle_post   *)
(* of main/rtsp/rtsp_handlers.c).  A sender pairs in one of three ways:      *)
(* "setup" (transient pair-setup, two exchanges, then every block is         *)
(* encrypted), "verify" (pair-verify in TLV8, likewise) and "raw" (the older *)
(* pair-verify, whose keys serve the audio only).  A key is the number of    *)
(* the exchange it comes from and its use; a ciphertext opens under the same *)
(* key and nonce and no other.                                               *)
EXTENDS Naturals, Sequences

CONSTANTS MaxConnections, MaxExchanges, MaxCommands,
          MaxBlocks,    \* of RTSP_ENCRYPTED_BLOCK_MAX bytes in a reply
          MaxOom        \* allocations that fail

VARIABLES
  hap,       \* conn->hap_session
  link,      \* the device's end: open, encrypted_mode, the length header read
  wire,      \* what the sender sent and the device has not read
  replies,   \* what the device sent and the sender has not read
  peer,      \* the sender: its way of pairing, how far it is, its keys
  pairHist   \* connections, exchanges, commands, failed allocations so far;
             \* whether, on this connection, a block did not open

pairVars == <<hap, link, wire, replies, peer, pairHist>>

Key(secret, use) == [secret |-> secret, use |-> use]
NoKey == Key(0, "none")

NoSession ==
  [exists |-> FALSE, srp |-> 0, verified |-> FALSE, setup |-> 0, verify |-> 0, secret |-> 0,
   established |-> FALSE, ekey |-> NoKey, dkey |-> NoKey, enonce |-> 0, dnonce |-> 0]

\* hap_session_create, for the first pairing request of a connection
Session == IF hap.exists THEN hap ELSE [NoSession EXCEPT !.exists = TRUE]

Away == [path |-> "none", stage |-> "away", secret |-> 0, encrypted |-> FALSE, wnonce |-> 0, rnonce |-> 0]

Init ==
  /\ hap = NoSession
  /\ link = [open |-> FALSE, encrypted |-> FALSE, header |-> FALSE]
  /\ wire = << >> /\ replies = << >>
  /\ peer = Away
  /\ pairHist = [conns |-> 0, exchanges |-> 0, commands |-> 0, oom |-> 0, garbled |-> FALSE]

-----------------------------------------------------------------------------
\* The sender.  It asks one thing at a time; the device answers the first
\* exchange of a pair-setup with its public key, which fixes the secret.

Connect(path) ==
  /\ peer.stage = "away" /\ ~link.open
  /\ pairHist.conns < MaxConnections
  /\ peer' = [Away EXCEPT !.path = path, !.stage = "new"]
  /\ link' = [open |-> TRUE, encrypted |-> FALSE, header |-> FALSE]
  /\ hap' = NoSession
  /\ pairHist' = [pairHist EXCEPT !.conns = @ + 1, !.garbled = FALSE]
  /\ UNCHANGED <<wire, replies>>

\* in encrypted mode the two bytes of the length and the block may arrive apart
Says(req) ==
  IF peer.encrypted
  THEN <<[part |-> "length", req |-> "none", secret |-> 0, key |-> NoKey, nonce |-> 0],
         [part |-> "block", req |-> req, secret |-> 0,
          key |-> Key(peer.secret, "write"), nonce |-> peer.wnonce]>>
  ELSE <<[part |-> "plain", req |-> req, secret |-> peer.secret, key |-> NoKey, nonce |-> 0]>>

Sends(req) ==
  /\ wire' = wire \o Says(req)
  /\ UNCHANGED <<hap, link, replies>>

AskFirst ==
  /\ peer.stage = "new"
  /\ pairHist.exchanges < MaxExchanges
  /\ pairHist' = [pairHist EXCEPT !.exchanges = @ + 1]
  /\ peer' = [peer EXCEPT !.stage = "first", !.secret = pairHist.exchanges + 1]
  /\ wire' = Append(wire, [part |-> "plain", req |-> "m1", secret |-> pairHist.exchanges + 1,
                           key |-> NoKey, nonce |-> 0])
  /\ UNCHANGED <<hap, link, replies>>

\* the proof is wrong when the sender was given another PIN
AskSecond(right) ==
  /\ peer.stage = "answered"
  /\ peer' = [peer EXCEPT !.stage = "second"]
  /\ Sends(IF right THEN "m3" ELSE "m3wrong")
  /\ UNCHANGED pairHist

Command ==
  /\ peer.stage = "ready"
  /\ pairHist.commands < MaxCommands
  /\ pairHist' = [pairHist EXCEPT !.commands = @ + 1]
  /\ peer' = [peer EXCEPT !.stage = "commanded", !.wnonce = IF peer.encrypted THEN @ + 1 ELSE @]
  /\ Sends("command")

\* a block opens when it is what the sender expects: in clear, or under the
\* key it derived and the number it has counted to
Opens(b) ==
  IF peer.encrypted
  THEN b.part = "block" /\ b.key = Key(peer.secret, "read") /\ b.nonce = peer.rnonce
  ELSE b.part = "plain"

\* a sender of the raw kind looks at the status line and not at the body
Accepts(b) == b.says = "m4" \/ (peer.path = "raw" /\ b.says # "busy")

\* the sender's next stage: after the second answer of "setup" and "verify" it
\* speaks encrypted; an error sends it back to the start
Heard(b) ==
  LET counted == [peer EXCEPT !.rnonce = IF peer.encrypted THEN @ + 1 ELSE @] IN
  CASE ~b.last -> counted
    [] b.last /\ peer.stage = "first" ->
         [counted EXCEPT !.stage = IF b.says = "m2" THEN "answered" ELSE "new"]
    [] b.last /\ peer.stage = "second" /\ Accepts(b) ->
         [counted EXCEPT !.stage = "ready", !.encrypted = (peer.path # "raw")]
    [] b.last /\ peer.stage = "second" /\ ~Accepts(b) ->
         [counted EXCEPT !.stage = "new"]
    [] b.last /\ peer.stage = "commanded" -> [counted EXCEPT !.stage = "ready"]

Hear ==
  /\ peer.stage # "away" /\ replies # << >>
  /\ replies' = Tail(replies)
  /\ IF Opens(Head(replies))
     THEN peer' = Heard(Head(replies)) /\ UNCHANGED pairHist
     ELSE /\ peer' = [peer EXCEPT !.stage = "lost"]
          /\ pairHist' = [pairHist EXCEPT !.garbled = TRUE]
  /\ UNCHANGED <<hap, link, wire>>

Leave ==
  /\ peer.stage # "away"
  /\ peer' = Away
  /\ replies' = << >>
  /\ UNCHANGED <<hap, link, wire, pairHist>>

-----------------------------------------------------------------------------
\* The pairing requests.  Each step gives the session after it and its answer,
\* "none" when the handler found nothing to send.

\* hap_pair_setup_m1: a new SRP session each time
SetupM1(h, r) == [h |-> [h EXCEPT !.srp = r.secret, !.verified = FALSE, !.setup = 2], says |-> "m2"]

\* srp_session_create failed: the old one is gone
SetupM1Fails(h) == [h |-> [h EXCEPT !.srp = 0, !.verified = FALSE], says |-> "none"]

\* srp_verify_client: the client's proof is the one this session expects
ProofHolds(r) == r.req = "m3"

\* hap_pair_setup_m3: keys only when the proof is accepted
SetupM3(h, r) ==
  CASE h.srp = 0 -> [h |-> h, says |-> "none"]
    [] h.srp # 0 /\ ~ProofHolds(r) -> [h |-> h, says |-> "error"]
    [] h.srp # 0 /\ ProofHolds(r) ->
         [h |-> [h EXCEPT !.verified = TRUE, !.secret = h.srp,
                   !.ekey = Key(h.srp, "read"), !.dkey = Key(h.srp, "write"),
                   !.enonce = 0, !.dnonce = 0, !.established = TRUE, !.setup = 4],
          says |-> "m4"]

\* hap_pair_verify_m1: encrypt_key holds the key of this exchange meanwhile
VerifyM1(h, r) ==
  [h |-> [h EXCEPT !.secret = r.secret, !.ekey = Key(r.secret, "verify"), !.verify = 2],
   says |-> "m2"]

\* hap_pair_verify_m3
VerifyM3(h, r) ==
  IF r.req = "m3" /\ h.ekey = Key(r.secret, "verify")
  THEN [h |-> [h EXCEPT !.ekey = Key(h.secret, "read"), !.dkey = Key(h.secret, "write"),
                 !.verify = 4, !.established = TRUE],
        says |-> "m4"]
  ELSE [h |-> h, says |-> "none"]

\* hap_pair_verify_m1_raw, hap_pair_verify_m3_raw: which of the two a request
\* is depends on the session's state alone; the second checks nothing and
\* answers nothing
VerifyRaw(h, r) ==
  CASE h.verify = 0 ->
         [h |-> [h EXCEPT !.secret = r.secret, !.ekey = Key(r.secret, "aes"),
                   !.dkey = Key(r.secret, "iv"), !.verify = 2],
          says |-> "m2"]
    [] h.verify = 2 ->
         [h |-> [h EXCEPT !.ekey = Key(h.secret, "write"), !.dkey = Key(h.secret, "read"),
                   !.enonce = 0, !.dnonce = 0, !.verify = 4, !.established = TRUE],
          says |-> "none"]
    [] h.verify = 4 -> [h |-> h, says |-> "none"]

Step(h, r) ==
  CASE peer.path = "raw" -> VerifyRaw(h, r)
    [] peer.path = "setup" -> IF r.req = "m1" THEN SetupM1(h, r) ELSE SetupM3(h, r)
    [] OTHER -> IF r.req = "m1" THEN VerifyM1(h, r) ELSE VerifyM3(h, r)

-----------------------------------------------------------------------------
\* rtsp_send_response: in encrypted mode rtsp_crypto_write_frame sends block
\* after block, of which the first "sent" went out before an allocation failed
Blocks(h, enc, says, n, sent) ==
  IF enc
  THEN [i \in 1 .. sent |->
          [part |-> "block", says |-> says, key |-> h.ekey, nonce |-> h.enonce + i - 1, last |-> i = n]]
  ELSE IF sent < n THEN << >>
       ELSE <<[part |-> "plain", says |-> says, key |-> NoKey, nonce |-> 0, last |-> TRUE]>>

Counted(h, enc, sent) == IF enc THEN [h EXCEPT !.enonce = @ + sent] ELSE h

Sent(h, enc, says, n) ==
  \E sent \in 0 .. n :
    /\ sent < n => pairHist.oom < MaxOom
    /\ pairHist' = [pairHist EXCEPT !.oom = IF sent < n THEN @ + 1 ELSE @]
    /\ replies' = replies \o Blocks(h, enc, says, n, sent)
    /\ hap' = Counted(h, enc, sent)

\* Mutant: the channel is switched over before the reply is sent
SwitchesFirst(h) == h.established

\* whether the reply to a pairing request already goes out encrypted: that of
\* a pair-setup as the request came, that of a pair-verify under the new keys
ReplyEncrypted(h) ==
  link.encrypted \/ (peer.path = "verify" /\ h.verify = 4)

\* encrypted_mode after the reply: keys for the raw pair-verify are for audio
Encrypts(h) ==
  \/ link.encrypted
  \/ peer.path = "setup" /\ h.setup = 4 /\ h.established
  \/ peer.path = "verify" /\ h.verify = 4

\* handle_post for /pair-setup and /pair-verify
Answers(step) ==
  /\ Sent(step.h, ReplyEncrypted(step.h), IF step.says = "none" THEN "error" ELSE step.says, 1)
  /\ link' = [link EXCEPT !.encrypted = Encrypts(step.h), !.header = FALSE]

\* the answer when the session or the response buffer cannot be allocated
AnswersNoMemory(h) ==
  /\ pairHist.oom < MaxOom
  /\ pairHist' = [pairHist EXCEPT !.oom = @ + 1]
  /\ replies' = replies \o Blocks(h, link.encrypted, "busy", 1, 1)
  /\ hap' = Counted(h, link.encrypted, 1)
  /\ link' = [link EXCEPT !.header = FALSE]

Dispatch(h, r) ==
  IF r.req = "command"
  THEN \E n \in 1 .. MaxBlocks :
         Sent(h, link.encrypted, "ok", n) /\ link' = [link EXCEPT !.header = FALSE]
  ELSE \/ Answers(Step(h, r))
       \/ AnswersNoMemory(h)
       \/ /\ peer.path = "setup" /\ r.req = "m1"
          /\ Answers(SetupM1Fails(h))

\* a request arrives in clear: recv and process_rtsp_buffer
ReadPlain ==
  /\ link.open /\ ~link.encrypted /\ wire # << >>
  /\ Head(wire).part = "plain"
  /\ wire' = Tail(wire)
  /\ Dispatch(Session, Head(wire))
  /\ UNCHANGED peer

\* rtsp_crypto_read_block: the two bytes of the length
ReadLength ==
  /\ link.open /\ link.encrypted /\ ~link.header /\ wire # << >>
  /\ Head(wire).part = "length"
  /\ wire' = Tail(wire)
  /\ link' = [link EXCEPT !.header = TRUE]
  /\ UNCHANGED <<hap, replies, peer, pairHist>>

\* Mutant: a receive timeout gives the block up, as it does before the length
TimeoutDrops == FALSE

\* SO_RCVTIMEO within a block: what has been read of it is kept
TimeoutKeeps == link.header

ReadTimeout ==
  /\ link.open /\ link.encrypted
  /\ link' = [link EXCEPT !.header = TimeoutKeeps]
  /\ UNCHANGED <<hap, wire, replies, peer, pairHist>>

BlockOpens == Head(wire).key = hap.dkey /\ Head(wire).nonce = hap.dnonce

ReadBlock ==
  /\ link.open /\ link.encrypted /\ link.header /\ wire # << >>
  /\ Head(wire).part = "block" /\ BlockOpens
  /\ wire' = Tail(wire)
  /\ Dispatch([hap EXCEPT !.dnonce = @ + 1], Head(wire))
  /\ UNCHANGED peer

\* what is read does not fit: another part than expected, or it does not open.
\* errno may still say EAGAIN from an earlier receive, and then the loop goes on
ReadFails ==
  /\ link.open /\ wire # << >>
  /\ CASE ~link.encrypted -> Head(wire).part # "plain"
       [] link.encrypted /\ ~link.header -> Head(wire).part # "length"
       [] link.encrypted /\ link.header -> Head(wire).part # "block" \/ ~BlockOpens
  /\ wire' = Tail(wire)
  /\ \E on \in BOOLEAN : link' = [link EXCEPT !.open = on, !.header = FALSE]
  /\ pairHist' = [pairHist EXCEPT !.garbled = TRUE]
  /\ UNCHANGED <<hap, replies, peer>>

\* the sender has closed: the client's clean-up frees the session
Closed ==
  /\ link.open /\ peer.stage = "away"
  /\ link' = [open |-> FALSE, encrypted |-> FALSE, header |-> FALSE]
  /\ hap' = NoSession
  /\ wire' = << >> /\ replies' = << >>
  /\ UNCHANGED <<peer, pairHist>>

Next ==
  \/ \E path \in {"setup", "verify", "raw"} : Connect(path)
  \/ AskFirst \/ Command \/ Hear \/ Leave
  \/ \E right \in BOOLEAN : AskSecond(right)
  \/ ReadPlain \/ ReadLength \/ ReadTimeout \/ ReadBlock \/ ReadFails \/ Closed

\* hap_derive_audio_key, as SETUP uses it
AudioKey == IF hap.established THEN hap.secret ELSE 0

-----------------------------------------------------------------------------
\* A sender that pairs by pair-setup or by the raw pair-verify and the device
\* understand each other for as long as the connection lasts, failed
\* allocations included: every block either of them gets opens under the key
\* and the number it expects, and once the sender takes itself for paired both
\* derive the audio key from the same secret (rtsp_crypto_read_block: to
\* abandon consumed bytes "permanently desyncs the encrypted stream framing").
InStep ==
  peer.path \in {"setup", "raw"} =>
    /\ ~pairHist.garbled
    /\ peer.stage \in {"ready", "commanded"} => AudioKey = peer.secret
=============================================================================
