---------------------------- MODULE ControlProofs ----------------------------
(***************************************************************************)
(* What holds of the parts that change what the device does, for every     *)
(* value of the constants: the invariants of MCControl.                    *)
(***************************************************************************)
EXTENDS MCControl, SequenceTheorems, FiniteSetTheorems, WellFoundedInduction, TLAPS

-----------------------------------------------------------------------------
(* The remote control (Dacp).                                              *)

\* Unless the session changed during a look-up, the port that is known, or is
\* being looked up, is that of the session's own source.
DacpInv ==
  /\ session = [id |-> session.id, port |-> session.port, failed |-> session.failed]
  /\ worker = [doing |-> worker.doing, source |-> worker.source, port |-> worker.port,
               changed |-> worker.changed]
  /\ worker.doing \in {"wait", "discover", "send"}
  /\ dacpHist = [changed |-> dacpHist.changed, dropped |-> dacpHist.dropped,
                 refused |-> dacpHist.refused, sessions |-> dacpHist.sessions,
                 commands |-> dacpHist.commands]
  /\ ~dacpHist.changed =>
       /\ session.port # 0 => session.port = session.id
       /\ worker.doing = "discover" => worker.source = session.id
  /\ CommandsReachSource

LEMMA DacpStep ==
  ASSUME DacpInv, Remote!Next
  PROVE  DacpInv'
<1> USE DEF DacpInv, CommandsReachSource, Remote!CommandsReachSource
<1>1. CASE Remote!SetSession
  <2>1. PICK s \in Sources, full \in BOOLEAN :
          /\ session' = [id |-> s, port |-> 0, failed |-> FALSE]
          /\ dacpHist' = [dacpHist EXCEPT !.sessions = @ + 1, !.dropped = full,
                             !.changed = worker.doing = "discover", !.refused = FALSE]
          /\ worker' = worker
    BY <1>1, Zenon DEF Remote!SetSession, Remote!NewSession
  <2> QED
    BY <2>1
<1>2. CASE Remote!ClearSession
  BY <1>2 DEF Remote!ClearSession, Remote!NewSession
<1>3. CASE Remote!Send
  BY <1>3 DEF Remote!Send
<1>4. CASE Remote!Take
  BY <1>4 DEF Remote!Take, Remote!Resting
<1>5. CASE Remote!Discovered
  BY <1>5 DEF Remote!Discovered, Remote!Resting
<1>6. CASE Remote!Sent
  BY <1>6 DEF Remote!Sent, Remote!Resting
<1> QED
  BY <1>1, <1>2, <1>3, <1>4, <1>5, <1>6 DEF Remote!Next

\* A command goes to the port of the source whose address and token it carries,
\* whatever the sources, the length of the queue and the number of sessions
\* (dacp_set_session, discover_dacp_port, execute_dacp_request).
THEOREM CommandsGoToTheirSource == Spec => []CommandsReachSource
<1>1. Init => DacpInv
  BY DEF Init, Remote!Init, Remote!Resting, DacpInv, CommandsReachSource,
     Remote!CommandsReachSource
<1>2. DacpInv /\ [Next]_vars => DacpInv'
  <2> SUFFICES ASSUME DacpInv, [Next]_vars  PROVE DacpInv'
    OBVIOUS
  <2>1. CASE DacpNext
    BY <2>1, DacpStep DEF DacpNext
  <2>2. CASE UNCHANGED dacpVars
    BY <2>2 DEF dacpVars, DacpInv, CommandsReachSource, Remote!CommandsReachSource
  <2> QED
    BY <2>1, <2>2 DEF Next, vars, SettingsNext, AuthNext, PlaybackNext, PageNext
<1>3. DacpInv => CommandsReachSource
  BY DEF DacpInv
<1> QED
  BY <1>1, <1>2, <1>3, PTL DEF Spec

-----------------------------------------------------------------------------
(* The now-playing page (NowPlaying).                                      *)

\* The sender has said where it is, and nothing the property leaves out
\* happened.
PageCounts == sender.here /\ sender.told /\ ~npHist.metaPaused /\ ~npHist.replaced

PageFields ==
  /\ shown = [playing |-> shown.playing, position |-> shown.position,
              duration |-> shown.duration, anchor |-> shown.anchor]
  /\ sender = [here |-> sender.here, playing |-> sender.playing,
               position |-> sender.position, told |-> sender.told]
  /\ npHist = [metaPaused |-> npHist.metaPaused, replaced |-> npHist.replaced]

PageTypes ==
  /\ clock \in Nat /\ clock > 0
  /\ shown.position \in Nat /\ shown.duration \in Nat
  /\ shown.anchor \in Nat /\ shown.anchor <= clock
  /\ sender.position \in 0 .. Duration

\* While it counts the page knows the track, plays when the sender does, and
\* counts from an anchor.
PageFollows ==
  PageCounts =>
    /\ shown.duration = Duration
    /\ shown.playing <=> sender.playing
    /\ shown.playing /\ Duration > 0 => shown.anchor > 0

PageInv == PageFields /\ PageTypes /\ PageFollows /\ PositionHonest

LEMMA PageStep ==
  ASSUME PageInv, Page!Next
  PROVE  PageInv'
<1> USE ControlAssumption DEF PageInv, PageFields, PageTypes
<1>1. CASE Page!ClientConnects
  <2>0. PageFields'
    BY <1>1 DEF Page!ClientConnects, Page!Resumed
  <2>1. PageTypes'
    BY <1>1 DEF Page!ClientConnects, Page!Resumed
  <2>2. PageFollows'
    BY <1>1 DEF Page!ClientConnects, Page!Resumed, PageFollows, PageCounts
  <2>3. PositionHonest'
    BY <1>1 DEF Page!ClientConnects, Page!Resumed, PageFollows, PageCounts, PositionHonest,
       Page!PositionHonest, Page!PositionNow, Page!Lesser
  <2> QED
    BY <2>0, <2>1, <2>2, <2>3
<1>2. CASE Page!SenderPlays
  <2>0. PageFields'
    BY <1>2 DEF Page!SenderPlays, Page!Resumed
  <2>1. PageTypes'
    BY <1>2 DEF Page!SenderPlays, Page!Resumed
  <2>2. PageFollows'
    BY <1>2 DEF Page!SenderPlays, Page!Resumed, PageFollows, PageCounts
  <2>3. PositionHonest'
    BY <1>2 DEF Page!SenderPlays, Page!Resumed, PageFollows, PageCounts, PositionHonest,
       Page!PositionHonest, Page!PositionNow, Page!Lesser
  <2> QED
    BY <2>0, <2>1, <2>2, <2>3
<1>3. CASE Page!SenderPauses
  <2>0. PageFields'
    BY <1>3 DEF Page!SenderPauses, Page!Paused, Page!PositionNow, Page!Lesser
  <2>1. PageTypes'
    BY <1>3 DEF Page!SenderPauses, Page!Paused, Page!PositionNow, Page!Lesser
  <2>2. PageFollows'
    BY <1>3 DEF Page!SenderPauses, Page!Paused, Page!PositionNow, Page!Lesser, PageFollows, PageCounts
  <2>3. PositionHonest'
    BY <1>3 DEF Page!SenderPauses, Page!Paused, Page!PositionNow, Page!Lesser, PageFollows, PageCounts, PositionHonest,
       Page!PositionHonest, Page!PositionNow, Page!Lesser
  <2> QED
    BY <2>0, <2>1, <2>2, <2>3
<1>4. CASE Page!SenderReports
  <2>0. PageFields'
    BY <1>4 DEF Page!SenderReports, Page!Progress
  <2>1. PageTypes'
    BY <1>4 DEF Page!SenderReports, Page!Progress
  <2>2. PageFollows'
    <3>1. PICK p \in 0 .. Duration :
            /\ sender' = [sender EXCEPT !.position = p, !.told = TRUE]
            /\ shown' = [playing |-> TRUE, position |-> p, duration |-> Duration,
                         anchor |-> clock]
      BY <1>4, Zenon DEF Page!SenderReports, Page!Progress
    <3>2. npHist'.metaPaused = ~sender.playing
      BY <1>4 DEF Page!SenderReports
    <3>3. shown'.duration = Duration /\ shown'.playing /\ shown'.anchor > 0
      BY <3>1
    <3>4. sender'.playing = sender.playing
      BY <3>1
    <3> QED
      BY <3>2, <3>3, <3>4, Zenon DEF PageFollows, PageCounts
  <2>3. PositionHonest'
    BY <1>4 DEF Page!SenderReports, Page!Progress, PageFollows, PageCounts, PositionHonest,
       Page!PositionHonest, Page!PositionNow, Page!Lesser
  <2> QED
    BY <2>0, <2>1, <2>2, <2>3
<1>5. CASE Page!SenderNames
  <2>0. PageFields'
    BY <1>5 DEF Page!SenderNames, Page!Titles
  <2>1. PageTypes'
    BY <1>5 DEF Page!SenderNames, Page!Titles
  <2>2. PageFollows'
    BY <1>5 DEF Page!SenderNames, Page!Titles, PageFollows, PageCounts
  <2>3. PositionHonest'
    BY <1>5 DEF Page!SenderNames, Page!Titles, PageFollows, PageCounts, PositionHonest,
       Page!PositionHonest, Page!PositionNow, Page!Lesser
  <2> QED
    BY <2>0, <2>1, <2>2, <2>3
<1>6. CASE Page!ClientLeaves
  <2>0. PageFields'
    BY <1>6 DEF Page!ClientLeaves, Page!Cleared
  <2>1. PageTypes'
    BY <1>6 DEF Page!ClientLeaves, Page!Cleared
  <2>2. PageFollows'
    BY <1>6 DEF Page!ClientLeaves, Page!Cleared, PageFollows, PageCounts
  <2>3. PositionHonest'
    BY <1>6 DEF Page!ClientLeaves, Page!Cleared, PageFollows, PageCounts, PositionHonest,
       Page!PositionHonest, Page!PositionNow, Page!Lesser
  <2> QED
    BY <2>0, <2>1, <2>2, <2>3
<1>7. CASE Page!ReplacedClientEnds
  <2>0. PageFields'
    BY <1>7 DEF Page!ReplacedClientEnds, Page!Cleared
  <2>1. PageTypes'
    BY <1>7 DEF Page!ReplacedClientEnds, Page!Cleared
  <2>2. PageFollows'
    BY <1>7 DEF Page!ReplacedClientEnds, Page!Cleared, PageFollows, PageCounts
  <2>3. PositionHonest'
    BY <1>7 DEF Page!ReplacedClientEnds, Page!Cleared, PageFollows, PageCounts, PositionHonest,
       Page!PositionHonest, Page!PositionNow, Page!Lesser
  <2> QED
    BY <2>0, <2>1, <2>2, <2>3
<1>8. CASE Page!Tick
  <2>0. PageFields'
    BY <1>8 DEF Page!Tick, Page!Lesser
  <2>1. PageTypes'
    BY <1>8 DEF Page!Tick, Page!Lesser
  <2>2. PageFollows'
    BY <1>8 DEF Page!Tick, Page!Lesser, PageFollows, PageCounts
  <2>3. PositionHonest'
    BY <1>8 DEF Page!Tick, Page!Lesser, PageFollows, PageCounts, PositionHonest,
       Page!PositionHonest, Page!PositionNow, Page!Lesser
  <2> QED
    BY <2>0, <2>1, <2>2, <2>3
<1> QED
  BY <1>1, <1>2, <1>3, <1>4, <1>5, <1>6, <1>7, <1>8 DEF Page!Next

\* From the sender's first report on the page shows the sender's own position,
\* for every length of track (nowplaying_position_now,
\* on_rtsp_event_nowplaying).
THEOREM PageShowsTheSender == Spec => []PositionHonest
<1>1. Init => PageInv
  BY ControlAssumption DEF Init, Page!Init, Page!Cleared, PageInv, PageFields, PageTypes, PageFollows,
     PageCounts, PositionHonest, Page!PositionHonest
<1>2. PageInv /\ [Next]_vars => PageInv'
  <2> SUFFICES ASSUME PageInv, [Next]_vars  PROVE PageInv'
    OBVIOUS
  <2>1. CASE PageNext
    BY <2>1, PageStep DEF PageNext
  <2>2. CASE UNCHANGED npVars
    BY <2>2 DEF npVars, PageInv, PageFields, PageTypes, PageFollows, PageCounts, PositionHonest,
       Page!PositionHonest, Page!PositionNow
  <2> QED
    BY <2>1, <2>2 DEF Next, vars, SettingsNext, AuthNext, PlaybackNext, DacpNext
<1>3. PageInv => PositionHonest
  BY DEF PageInv
<1> QED
  BY <1>1, <1>2, <1>3, PTL DEF Spec

-----------------------------------------------------------------------------
(* The volume and the buttons (Playback).                                  *)

\* What the button task may still have to run.
PlaybackPrograms ==
  {<< >>, <<"restore", "unmuted">>, <<"unmuted">>,
   <<"keep", "silence", "muted">>, <<"silence", "muted">>, <<"muted">>,
   <<"up", "client", "dac">>, <<"down", "client", "dac">>, <<"client", "dac">>, <<"dac">>}

PlaybackFields ==
  /\ actions \in Seq(Player!Buttons)
  /\ doing = [steps |-> doing.steps, new |-> doing.new]
  /\ doing.steps \in PlaybackPrograms
  /\ play = [source |-> play.source, muted |-> play.muted, pre |-> play.pre,
             client |-> play.client, dacp |-> play.dacp]
  /\ volume = [set |-> volume.set, dac |-> volume.dac]
  /\ pbHist = [edges |-> pbHist.edges, events |-> pbHist.events,
               recorded |-> pbHist.recorded, muted |-> pbHist.muted,
               raced |-> pbHist.raced, lost |-> pbHist.lost]

\* A client has started to play, and nothing the property leaves out happened.
PlaybackCounts == pbHist.recorded /\ ~pbHist.muted /\ ~pbHist.raced

\* At every step of the button task the level in the settings is on the DAC, or
\* kept for the unmute, or about to be set.
LevelKept ==
  /\ doing.steps \in {<< >>, <<"up", "client", "dac">>, <<"down", "client", "dac">>,
                      <<"client", "dac">>}
       => /\ play.muted => play.pre = volume.set
          /\ ~play.muted => volume.dac = volume.set
  /\ doing.steps = <<"keep", "silence", "muted">> => ~play.muted
  /\ doing.steps \in {<<"silence", "muted">>, <<"muted">>, <<"restore", "unmuted">>}
       => play.pre = volume.set
  /\ doing.steps = <<"unmuted">> => volume.dac = volume.set
  /\ doing.steps = <<"dac">> => ~play.muted /\ doing.new = volume.set

PlaybackInv ==
  /\ PlaybackFields
  /\ pbHist.recorded => play.client
  /\ PlaybackCounts => LevelKept

\* Which program a step belongs to.
LEMMA ProgramOfStep ==
  ASSUME NEW p \in PlaybackPrograms, p # << >>
  PROVE  /\ Head(p) = "up" => p = <<"up", "client", "dac">>
         /\ Head(p) = "down" => p = <<"down", "client", "dac">>
         /\ Head(p) = "client" => p = <<"client", "dac">>
         /\ Head(p) = "dac" => p = <<"dac">>
         /\ Head(p) = "keep" => p = <<"keep", "silence", "muted">>
         /\ Head(p) = "silence" => p = <<"silence", "muted">>
         /\ Head(p) = "muted" => p = <<"muted">>
         /\ Head(p) = "restore" => p = <<"restore", "unmuted">>
         /\ Head(p) = "unmuted" => p = <<"unmuted">>
BY DEF PlaybackPrograms

\* The interrupt and the timers change neither a level nor the button task.
LEMMA ButtonsStep ==
  ASSUME PlaybackInv, NEW b \in Player!Buttons,
         Player!Edge(b) \/ Player!Debounced(b) \/ Player!Repeats(b)
  PROVE  PlaybackInv'
<1>1. actions' \in Seq(Player!Buttons)
  <2>1. actions' = actions \/ actions' = Append(actions, b)
    BY Zenon DEF Player!Edge, Player!Debounced, Player!Repeats, Player!Post
  <2> QED
    BY <2>1 DEF PlaybackInv, PlaybackFields
<1>2. /\ UNCHANGED <<doing, play, volume>>
      /\ pbHist' = pbHist \/ \E lost \in BOOLEAN :
           pbHist' = [pbHist EXCEPT !.edges = @ + 1, !.lost = @ \/ lost]
  BY Zenon DEF Player!Edge, Player!Debounced, Player!Repeats
<1> QED
  BY <1>1, <1>2 DEF PlaybackInv, PlaybackFields, PlaybackCounts, LevelKept

\* The steps of the button task.
LEMMA ButtonTaskStep ==
  ASSUME PlaybackInv,
         Player!TakeAction \/ Player!ReadVolume \/ Player!AdjustClient
           \/ Player!AdjustDac \/ Player!Mute
  PROVE  PlaybackInv'
<1> USE DEF PlaybackInv, PlaybackFields, PlaybackPrograms, PlaybackCounts
<1>1. CASE Player!TakeAction
  <2>1. /\ actions' \in Seq(Player!Buttons)
        /\ Head(actions) \in Player!Buttons
    BY <1>1 DEF Player!TakeAction
  <2>2. /\ doing.steps = << >>
        /\ UNCHANGED <<play, volume, pbHist>>
        /\ \/ doing' = [doing EXCEPT !.steps = << >>]
           \/ doing' = [doing EXCEPT !.steps = <<"restore", "unmuted">>] /\ play.muted
           \/ doing' = [doing EXCEPT !.steps = <<"keep", "silence", "muted">>]
                /\ ~play.muted
           \/ doing' = [doing EXCEPT !.steps = <<"up", "client", "dac">>]
           \/ doing' = [doing EXCEPT !.steps = <<"down", "client", "dac">>]
    BY <1>1, <2>1 DEF Player!TakeAction, Player!PlayPauseSteps, Player!AdjustSteps,
       Player!Buttons
  <2>3. PlaybackFields'
    BY <2>1, <2>2
  <2>4. PlaybackCounts => LevelKept'
    <3>1. CASE doing'.steps = << >>
      BY <2>2, <3>1 DEF LevelKept
    <3>2. CASE doing'.steps = <<"restore", "unmuted">> /\ play.muted
      BY <2>2, <3>2 DEF LevelKept
    <3>3. CASE doing'.steps = <<"keep", "silence", "muted">> /\ ~play.muted
      BY <2>2, <3>3 DEF LevelKept
    <3>4. CASE doing'.steps = <<"up", "client", "dac">>
      BY <2>2, <3>4 DEF LevelKept
    <3>5. CASE doing'.steps = <<"down", "client", "dac">>
      BY <2>2, <3>5 DEF LevelKept
    <3> QED
      BY <2>2, <3>1, <3>2, <3>3, <3>4, <3>5
  <2> QED
    BY <2>2, <2>3, <2>4
<1>2. CASE Player!ReadVolume
  <2>1. doing.steps \in {<<"up", "client", "dac">>, <<"down", "client", "dac">>}
    <3>1. doing.steps # << >> /\ Head(doing.steps) \in {"up", "down"}
      BY <1>2, Zenon DEF Player!ReadVolume, Player!At
    <3> QED
      BY <3>1, ProgramOfStep
  <2>2. PICK n : doing' = [steps |-> Tail(doing.steps), new |-> n]
    BY <1>2, Zenon DEF Player!ReadVolume
  <2>3. Tail(doing.steps) = <<"client", "dac">>
    <3>1. CASE doing.steps = <<"up", "client", "dac">>
      BY <3>1
    <3>2. CASE doing.steps = <<"down", "client", "dac">>
      BY <3>2
    <3> QED
      BY <2>1, <3>1, <3>2
  <2>4. UNCHANGED <<actions, play, volume, pbHist>>
    BY <1>2 DEF Player!ReadVolume
  <2>5. PlaybackFields'
    BY <2>2, <2>3, <2>4
  <2>6. PlaybackCounts => LevelKept'
    BY <2>1, <2>2, <2>3, <2>4 DEF LevelKept
  <2> QED
    BY <2>4, <2>5, <2>6
<1>3. CASE Player!AdjustClient
  <2>0. doing.steps = <<"client", "dac">>
    BY <1>3, ProgramOfStep DEF Player!AdjustClient, Player!At
  <2>1. /\ UNCHANGED <<actions, play>>
        /\ doing' = [doing EXCEPT !.steps = <<"dac">>]
        /\ pbHist' = [pbHist EXCEPT !.muted = @ \/ play.muted]
    BY <1>3, <2>0 DEF Player!AdjustClient, Player!Advance
  <2>2. /\ volume' = [set |-> volume'.set, dac |-> volume'.dac]
        /\ play.client => volume'.set = doing.new
    BY <1>3 DEF Player!AdjustClient, Player!SetVolume
  <2> QED
    BY <2>0, <2>1, <2>2 DEF LevelKept
<1>4. CASE Player!AdjustDac
  <2>0. doing.steps = <<"dac">>
    BY <1>4, ProgramOfStep DEF Player!AdjustDac, Player!At
  <2>1. UNCHANGED actions /\ doing' = [doing EXCEPT !.steps = << >>]
    BY <1>4, <2>0 DEF Player!AdjustDac, Player!Advance
  <2>2. CASE play.muted
    <3>1. UNCHANGED <<volume, pbHist>> /\ play' = [play EXCEPT !.pre = doing.new]
      BY <1>4, <2>2 DEF Player!AdjustDac
    <3> QED
      BY <2>0, <2>1, <2>2, <3>1 DEF LevelKept
  <2>3. CASE ~play.muted
    <3>1. /\ UNCHANGED play /\ volume' = [volume EXCEPT !.dac = doing.new]
          /\ pbHist' = [pbHist EXCEPT !.recorded = @ /\ play.client]
      BY <1>4, <2>3 DEF Player!AdjustDac
    <3> QED
      BY <2>0, <2>1, <2>3, <3>1 DEF LevelKept
  <2> QED
    BY <2>2, <2>3
<1>5. CASE Player!Mute
  <2> UNCHANGED <<actions, pbHist>> /\ doing' = [doing EXCEPT !.steps = Tail(@)]
    BY <1>5 DEF Player!Mute, Player!Advance
  <2>1. CASE Player!Keep /\ UNCHANGED volume
    <3>1. /\ doing.steps = <<"keep", "silence", "muted">>
          /\ play' = [play EXCEPT !.pre = volume.set] /\ UNCHANGED volume
      BY <2>1, ProgramOfStep DEF Player!Keep, Player!At
    <3> QED
      BY <3>1 DEF LevelKept
  <2>2. CASE Player!At("silence") /\ volume' = [volume EXCEPT !.dac = 0] /\ UNCHANGED play
    <3>1. doing.steps = <<"silence", "muted">>
      BY <2>2, ProgramOfStep DEF Player!At
    <3> QED
      BY <2>2, <3>1 DEF LevelKept
  <2>3. CASE Player!At("muted") /\ play' = [play EXCEPT !.muted = TRUE] /\ UNCHANGED volume
    <3>1. doing.steps = <<"muted">>
      BY <2>3, ProgramOfStep DEF Player!At
    <3>2. doing' = [doing EXCEPT !.steps = << >>]
      BY <3>1
    <3>3. PlaybackFields'
      BY <2>3, <3>2
    <3>4. PlaybackCounts => LevelKept'
      BY <2>3, <3>1, <3>2 DEF LevelKept
    <3> QED
      BY <2>3, <3>3, <3>4
  <2>4. CASE /\ Player!At("restore") /\ volume' = [volume EXCEPT !.dac = play.pre]
             /\ UNCHANGED play
    <3>1. doing.steps = <<"restore", "unmuted">>
      BY <2>4, ProgramOfStep DEF Player!At
    <3> QED
      BY <2>4, <3>1 DEF LevelKept
  <2>5. CASE /\ Player!At("unmuted") /\ play' = [play EXCEPT !.muted = FALSE]
             /\ UNCHANGED volume
    <3>1. doing.steps = <<"unmuted">>
      BY <2>5, ProgramOfStep DEF Player!At
    <3>2. doing' = [doing EXCEPT !.steps = << >>]
      BY <3>1
    <3>3. PlaybackFields'
      BY <2>5, <3>2
    <3>4. PlaybackCounts => LevelKept'
      BY <2>5, <3>1, <3>2 DEF LevelKept
    <3> QED
      BY <2>5, <3>3, <3>4
  <2> QED
    BY <1>5, <2>1, <2>2, <2>3, <2>4, <2>5 DEF Player!Mute
<1> QED
  BY <1>1, <1>2, <1>3, <1>4, <1>5

\* What the sources do, at any step of the button task.
LEMMA SourcesStep ==
  ASSUME PlaybackInv,
         Player!ClientVolume \/ Player!ClientRecords \/ Player!ClientLeaves
           \/ Player!DacpChanges \/ Player!SetSource
  PROVE  PlaybackInv'
<1> USE DEF PlaybackInv, PlaybackFields, PlaybackPrograms, PlaybackCounts, Player!Event
<1> UNCHANGED <<actions, doing>>
  BY DEF Player!ClientVolume, Player!ClientRecords, Player!ClientLeaves,
     Player!DacpChanges, Player!SetSource
<1>1. CASE Player!ClientVolume
  <2>1. /\ UNCHANGED play
        /\ volume' = [set |-> volume'.set, dac |-> volume'.dac]
        /\ volume.dac = volume.set => volume'.dac = volume'.set
    BY <1>1 DEF Player!ClientVolume, Player!SetVolume
  <2>2. pbHist' = [[pbHist EXCEPT !.muted = @ \/ play.muted, !.raced = @ \/ Player!Busy]
                     EXCEPT !.events = @ + 1]
    BY <1>1 DEF Player!ClientVolume
  <2>3. PlaybackFields'
    BY <2>1, <2>2
  <2>4. PlaybackCounts' => PlaybackCounts /\ ~play.muted /\ doing.steps = << >>
    BY <2>2 DEF Player!Busy
  <2>5. PlaybackCounts' => LevelKept'
    BY <2>1, <2>4 DEF LevelKept
  <2> QED
    BY <2>1, <2>2, <2>3, <2>5
<1>2. CASE Player!ClientRecords
  <2>1. /\ play' = [play EXCEPT !.client = TRUE]
        /\ volume' = [volume EXCEPT !.dac = volume.set]
        /\ pbHist' = [[pbHist EXCEPT !.recorded = TRUE, !.muted = play.muted,
                                      !.raced = Player!Busy] EXCEPT !.events = @ + 1]
    BY <1>2 DEF Player!ClientRecords
  <2>2. PlaybackFields'
    BY <2>1
  <2>3. PlaybackCounts' => ~play.muted /\ doing.steps = << >>
    BY <2>1 DEF Player!Busy
  <2>4. PlaybackCounts' => LevelKept'
    <3>1. SUFFICES ASSUME ~play.muted, doing.steps = << >>  PROVE LevelKept'
      BY <2>3
    <3>2. volume'.dac = volume'.set /\ (play'.muted <=> play.muted) /\ doing'.steps = << >>
      BY <2>1, <3>1
    <3> QED
      BY <3>1, <3>2 DEF LevelKept
  <2> QED
    BY <2>1, <2>2, <2>4
<1>3. CASE Player!ClientLeaves
  BY <1>3 DEF Player!ClientLeaves
<1>4. CASE Player!DacpChanges
  BY <1>4 DEF Player!DacpChanges, LevelKept
<1>5. CASE Player!SetSource
  <2>1. PICK s, v : /\ play' = [play EXCEPT !.source = s, !.muted = FALSE, !.client = FALSE]
                    /\ volume' = [volume EXCEPT !.dac = v]
    BY <1>5, Zenon DEF Player!SetSource
  <2>2. pbHist' = [[pbHist EXCEPT !.recorded = FALSE] EXCEPT !.events = @ + 1]
    BY <1>5 DEF Player!SetSource
  <2> QED
    BY <2>1, <2>2
<1> QED
  BY <1>1, <1>2, <1>3, <1>4, <1>5

\* With a client that has started to play and no mute, the DAC has the level in
\* the settings, for every number of levels, edges and events
\* (playback_control_play_pause, airplay_adjust_volume, settings_set_volume).
THEOREM HeardIsSet == Spec => []HeardAsSet
<1>1. Init => PlaybackInv
  <2> SUFFICES ASSUME Init  PROVE PlaybackInv
    OBVIOUS
  <2>1. PICK v \in Player!Levels : volume = [set |-> v, dac |-> v]
    BY Zenon DEF Init, Player!Init
  <2> QED
    BY <2>1 DEF Init, Player!Init, PlaybackInv, PlaybackFields, PlaybackPrograms,
       PlaybackCounts
<1>2. PlaybackInv /\ [Next]_vars => PlaybackInv'
  <2> SUFFICES ASSUME PlaybackInv, [Next]_vars  PROVE PlaybackInv'
    OBVIOUS
  <2>1. CASE PlaybackNext
    BY <2>1, ButtonsStep, ButtonTaskStep, SourcesStep, Zenon DEF PlaybackNext, Player!Next
  <2>2. CASE UNCHANGED pbVars
    BY <2>2 DEF pbVars, PlaybackInv, PlaybackFields, PlaybackCounts, LevelKept
  <2> QED
    BY <2>1, <2>2 DEF Next, vars, SettingsNext, AuthNext, PageNext, DacpNext
<1>3. PlaybackInv => HeardAsSet
  BY DEF PlaybackInv, PlaybackCounts, LevelKept, HeardAsSet, Player!HeardAsSet, Player!Busy
<1> QED
  BY <1>1, <1>2, <1>3, PTL DEF Spec

-----------------------------------------------------------------------------
(* Access to the web page (WebAuth).                                       *)

AuthFields ==
  /\ now \in Nat
  /\ login = [failures |-> login.failures, until |-> login.until]
  /\ login.failures \in Nat /\ login.until \in Nat
  /\ authHist = [issued |-> authHist.issued, wrong |-> authHist.wrong,
                 total |-> authHist.total, restarts |-> authHist.restarts]
  /\ authHist.total \in Nat
  /\ authHist.wrong \in Seq(Nat)
  /\ authHist.issued \in Seq([token : Nat, at : Nat])
  /\ slots \in [Auth!Slots -> [used : BOOLEAN, token : Nat, expires : Nat]]

\* The wrong passwords come in rounds of LOGIN_MAX_FAILURES: the counter says
\* how far the last round is, and those of the rounds before it end the lockout.
Rounds(w, failures, until, by) ==
  /\ failures < MaxFailures /\ failures <= Len(w)
  /\ \A j \in 1 .. Len(w) : w[j] <= by
  /\ \A j, k \in 1 .. Len(w) : j <= k => w[j] <= w[k]
  /\ \A j, k \in 1 .. Len(w) : j + MaxFailures <= k => w[j] + Lockout <= w[k]
  /\ \A j \in 1 .. Len(w) : j <= Len(w) - failures => w[j] + Lockout <= until

WrongInRounds == Rounds(authHist.wrong, login.failures, login.until, now)

\* The tokens of this start are numbered in the order of issue, no two at the
\* same time.
InOrder(t, total, by) ==
  /\ Len(t) <= total
  /\ \A i \in 1 .. Len(t) : t[i].token = total - Len(t) + i /\ t[i].at <= by
  /\ \A i, j \in 1 .. Len(t) : i < j => t[i].at < t[j].at

IssuedInOrder == InOrder(authHist.issued, authHist.total, now)

\* A slot in use holds one of them and expires with it; no two hold the same;
\* and each of the newest that has not aged is in one.
SlotsHoldTokens ==
  LET t == authHist.issued IN
  /\ \A s \in Auth!Slots : slots[s].used =>
       \E i \in 1 .. Len(t) : slots[s].token = t[i].token /\ slots[s].expires = t[i].at + Ttl
  /\ \A s, r \in Auth!Slots :
       slots[s].used /\ slots[r].used /\ slots[s].token = slots[r].token => s = r
  /\ \A i \in 1 .. Len(t) : Len(t) - i < MaxTokens /\ now < t[i].at + Ttl =>
       \E s \in Auth!Slots : slots[s].used /\ slots[s].token = t[i].token

AuthInv == AuthFields /\ WrongInRounds /\ IssuedInOrder /\ SlotsHoldTokens

\* A set of naturals that is not empty has a least element.
LessThan == {p \in Nat \X Nat : p[1] < p[2]}

LEMMA LessThanWellFounded == IsWellFoundedOn(LessThan, Nat)
BY NatLessThanWellFounded DEF OpToRel, LessThan

LEMMA LeastNatural ==
  ASSUME NEW T, T \subseteq Nat, T # {}
  PROVE  \E x \in T : \A y \in T : x <= y
<1>1. PICK x \in T : \A y \in T : ~(<<y, x>> \in LessThan)
  BY LessThanWellFounded, WFMin
<1>2. \A y \in T : <<y, x>> \in LessThan <=> y < x
  BY DEF LessThan
<1>3. ASSUME NEW y \in T  PROVE x <= y
  <2>1. ~(y < x) /\ x \in Nat /\ y \in Nat
    BY <1>1, <1>2
  <2> QED
    BY <2>1
<1> QED
  BY <1>3

\* The newest tokens are accepted for their time, and no other is.
LEMMA SlotsMakeTokensWork ==
  ASSUME AuthFields, IssuedInOrder, SlotsHoldTokens
  PROVE  Auth!NewestTokensWork
<1> DEFINE t == authHist.issued
<1> USE ControlAssumption DEF AuthFields
<1>1. ASSUME NEW i \in 1 .. Len(t), Len(t) - i < MaxTokens, now < t[i].at + Ttl
      PROVE  Auth!Allowed(t[i].token)
  <2>1. PICK s \in Auth!Slots : slots[s].used /\ slots[s].token = t[i].token
    BY <1>1 DEF SlotsHoldTokens
  <2>2. PICK j \in 1 .. Len(t) : slots[s].token = t[j].token /\ slots[s].expires = t[j].at + Ttl
    BY <2>1 DEF SlotsHoldTokens
  <2>3. j = i
    <3>1. /\ t[i].token = authHist.total - Len(t) + i
          /\ t[j].token = authHist.total - Len(t) + j
      BY DEF IssuedInOrder, InOrder
    <3>2. Len(t) \in Nat /\ i \in Int /\ j \in Int
      <4>1. t \in Seq([token : Nat, at : Nat])
        OBVIOUS
      <4> QED
        BY <4>1, LenProperties
    <3>0. authHist.total \in Nat
      OBVIOUS
    <3>3. authHist.total - Len(t) + i = authHist.total - Len(t) + j
      BY <2>1, <2>2, <3>1
    <3> HIDE DEF t
    <3> QED
      BY <3>0, <3>2, <3>3, SMTT(30)
  <2> QED
    BY <1>1, <2>1, <2>2, <2>3 DEF Auth!Allowed, Auth!TokenValid
<1>2. ASSUME NEW k \in 1 .. authHist.total, hasPw, Auth!Allowed(k)
      PROVE  \E i \in 1 .. Len(t) : t[i].token = k /\ now < t[i].at + Ttl
  <2>1. PICK s \in Auth!Slots : slots[s].used /\ slots[s].expires > now /\ slots[s].token = k
    BY <1>2 DEF Auth!Allowed, Auth!TokenValid
  <2>2. PICK j \in 1 .. Len(t) : slots[s].token = t[j].token /\ slots[s].expires = t[j].at + Ttl
    BY <2>1 DEF SlotsHoldTokens
  <2> QED
    BY <2>1, <2>2
<1> QED
  BY <1>1, <1>2 DEF Auth!NewestTokensWork

\* The slot that auth_issue_token takes: one that is free or has aged, and when
\* there is none the one that expires first.
LEMMA SlotTaken ==
  ASSUME AuthFields
  PROVE  /\ Auth!SlotToUse \in Auth!Slots
         /\ \/ ~slots[Auth!SlotToUse].used \/ slots[Auth!SlotToUse].expires <= now
            \/ /\ \A s \in Auth!Slots : slots[s].used /\ slots[s].expires > now
               /\ \A s \in Auth!Slots : slots[Auth!SlotToUse].expires <= slots[s].expires
<1> DEFINE free == {i \in Auth!Slots : ~slots[i].used \/ slots[i].expires <= now}
<1>1. Auth!Slots \subseteq Nat /\ Auth!Slots # {}
  BY ControlAssumption DEF Auth!Slots
<1>2. CASE free # {}
  <2>1. \E i \in free : \A j \in free : i <= j
    BY <1>1, <1>2, LeastNatural
  <2>2. Auth!SlotToUse = CHOOSE i \in free : \A j \in free : i <= j
    BY <1>2 DEF Auth!SlotToUse
  <2>3. Auth!SlotToUse \in free
    BY <2>1, <2>2
  <2> QED
    BY <2>3
<1>3. CASE free = {}
  <2>1. Auth!SlotToUse = Auth!EvictOldest
    BY <1>3 DEF Auth!SlotToUse
  <2>2. \A s \in Auth!Slots : slots[s].used /\ slots[s].expires > now
    BY <1>3 DEF AuthFields
  <2>3. PICK s \in Auth!Slots : \A r \in Auth!Slots : slots[s].expires <= slots[r].expires
    <3> DEFINE E == {slots[s].expires : s \in Auth!Slots}
    <3>1. E \subseteq Nat /\ E # {}
      BY <1>1 DEF AuthFields
    <3>2. PICK e \in E : \A f \in E : e <= f
      <4> HIDE DEF E
      <4> QED
        BY <3>1, LeastNatural
    <3> QED
      BY <3>2
  <2> DEFINE first == {r \in Auth!Slots : slots[r].expires = slots[s].expires}
  <2>4. PICK i \in first : \A j \in first : i <= j
    <3>1. first \subseteq Nat /\ first # {}
      BY <1>1
    <3> HIDE DEF first
    <3> QED
      BY <3>1, LeastNatural
  <2>5. /\ i \in Auth!Slots
        /\ \A j \in Auth!Slots : slots[i].expires <= slots[j].expires
        /\ \A j \in 1 .. (i - 1) : slots[i].expires < slots[j].expires
    <3>1. i \in Auth!Slots /\ slots[i].expires = slots[s].expires
      BY <2>4
    <3>2. ASSUME NEW j \in 1 .. (i - 1)  PROVE slots[i].expires < slots[j].expires
      <4>1. j \in Auth!Slots /\ ~(i <= j)
        BY <3>1, ControlAssumption DEF Auth!Slots
      <4>2. slots[j].expires # slots[s].expires
        BY <2>4, <4>1
      <4>3. slots[j].expires \in Nat /\ slots[s].expires \in Nat
        BY <4>1 DEF AuthFields
      <4> QED
        BY <2>3, <3>1, <4>1, <4>2, <4>3
    <3> QED
      BY <2>3, <3>1, <3>2
  <2>6. /\ Auth!EvictOldest \in Auth!Slots
        /\ \A j \in Auth!Slots : slots[Auth!EvictOldest].expires <= slots[j].expires
    BY <2>5 DEF Auth!EvictOldest
  <2> QED
    BY <2>1, <2>2, <2>6
<1> QED
  BY <1>2, <1>3

\* The length and the elements of a sequence, and of one that has grown.
LEMMA SeqElements ==
  ASSUME NEW S, NEW q \in Seq(S)
  PROVE  /\ Len(q) \in Nat /\ DOMAIN q = 1 .. Len(q)
         /\ \A k \in 1 .. Len(q) : q[k] \in S
BY LenProperties, ElementOfSeq

LEMMA SeqAppended ==
  ASSUME NEW S, NEW q \in Seq(S), NEW e \in S
  PROVE  /\ Append(q, e) \in Seq(S)
         /\ Len(Append(q, e)) = Len(q) + 1
         /\ Append(q, e)[Len(q) + 1] = e
         /\ \A k \in 1 .. Len(q) : Append(q, e)[k] = q[k]
BY AppendProperties, LenProperties

\* When all the slots hold tokens that have not aged, the one that expires first
\* is the oldest of them and none of the newest AUTH_MAX_TOKENS - 1.
LEMMA EvictedIsOld ==
  ASSUME AuthFields, IssuedInOrder, SlotsHoldTokens,
         NEW c \in Auth!Slots, NEW i \in 1 .. Len(authHist.issued),
         \A s \in Auth!Slots : slots[s].used,
         \A s \in Auth!Slots : slots[c].expires <= slots[s].expires,
         slots[c].token = authHist.issued[i].token
  PROVE  MaxTokens <= Len(authHist.issued) - i + 1
<1> DEFINE t == authHist.issued
           n == Len(t)
           f == [s \in Auth!Slots |-> slots[s].token - (authHist.total - n)]
<1>1. /\ n \in Nat /\ authHist.total \in Nat /\ i \in 1 .. n
      /\ \A k \in 1 .. n : t[k].at \in Nat /\ t[k].token \in Nat
  <2>1. t \in Seq([token : Nat, at : Nat])
    BY DEF AuthFields
  <2>2. n \in Nat /\ \A k \in 1 .. n : t[k] \in [token : Nat, at : Nat]
    BY <2>1, SeqElements, Zenon
  <2>3. authHist.total \in Nat
    BY DEF AuthFields
  <2> HIDE DEF n, t
  <2>4. \A k \in 1 .. n : t[k].at \in Nat /\ t[k].token \in Nat
    BY <2>2
  <2> QED
    BY <2>2, <2>3, <2>4 DEF n, t
<1>2. \A k \in 1 .. n : t[k].token = authHist.total - n + k
  BY DEF IssuedInOrder, InOrder
<1>3. \A k, l \in 1 .. n : k < l => t[k].at < t[l].at
  BY DEF IssuedInOrder, InOrder
<1>4. \A s \in Auth!Slots :
        f[s] \in 1 .. n /\ slots[s].token = t[f[s]].token /\ slots[s].expires = t[f[s]].at + Ttl
  <2>1. SUFFICES ASSUME NEW s \in Auth!Slots
                 PROVE  /\ f[s] \in 1 .. n /\ slots[s].token = t[f[s]].token
                        /\ slots[s].expires = t[f[s]].at + Ttl
    BY Zenon
  <2>2. PICK k \in 1 .. n : slots[s].token = t[k].token /\ slots[s].expires = t[k].at + Ttl
    BY DEF SlotsHoldTokens
  <2>3. f[s] = k
    <3>1. f[s] = slots[s].token - (authHist.total - n)
      OBVIOUS
    <3>2. slots[s].token = authHist.total - n + k
      BY <1>2, <2>2
    <3> HIDE DEF f, n
    <3> QED
      BY <1>1, <3>1, <3>2
  <2> HIDE DEF f
  <2> QED
    BY <2>2, <2>3
<1> HIDE DEF n
<1>5. f[c] = i
  <2>1. f[c] = slots[c].token - (authHist.total - n)
    OBVIOUS
  <2>2. slots[c].token = authHist.total - n + i
    BY <1>1, <1>2
  <2> HIDE DEF f
  <2> QED
    BY <1>1, <2>1, <2>2
<1>6. \A s \in Auth!Slots : f[s] \in i .. n
  <2> HIDE DEF f, t
  <2>1. SUFFICES ASSUME NEW s \in Auth!Slots, f[s] < i  PROVE FALSE
    BY <1>1, <1>4
  <2>2. t[f[s]].at < t[i].at
    BY <1>1, <1>3, <1>4, <2>1
  <2>3. t[i].at + Ttl <= t[f[s]].at + Ttl
    BY <1>4, <1>5
  <2>4. t[i].at \in Nat /\ t[f[s]].at \in Nat
    BY <1>1, <1>4
  <2> QED
    BY <2>2, <2>3, <2>4, ControlAssumption
<1>7. \A s, r \in Auth!Slots : f[s] = f[r] => s = r
  <2>1. \A s, r \in Auth!Slots : slots[s].token = slots[r].token => s = r
    BY DEF SlotsHoldTokens
  <2> HIDE DEF f, t
  <2> QED
    BY <1>4, <2>1
<1>8. f \in Injection(Auth!Slots, i .. n)
  <2>1. f \in [Auth!Slots -> i .. n]
    BY <1>6
  <2> HIDE DEF f
  <2> QED
    BY <1>7, <2>1 DEF Injection, IsInjective
<1>9. IsFiniteSet(i .. n) /\ Cardinality(i .. n) = n - i + 1
  <2>1. i \in Int /\ n \in Int /\ ~(i > n)
    BY <1>1
  <2> QED
    BY <2>1, FS_Interval
<1>10. Cardinality(Auth!Slots) = MaxTokens
  BY FS_Interval, ControlAssumption DEF Auth!Slots
<1> HIDE DEF f
<1>11. Cardinality(Auth!Slots) <= Cardinality(i .. n)
  BY <1>8, <1>9, FS_Injection
<1> QED
  BY <1>9, <1>10, <1>11 DEF n

\* auth_issue_token keeps the newest tokens, whichever slot it takes.
LEMMA IssueStep ==
  ASSUME AuthInv, NEW wrong, Auth!IssueToken(wrong), now' = now
  PROVE  /\ authHist'.issued \in Seq([token : Nat, at : Nat])
         /\ slots' \in [Auth!Slots -> [used : BOOLEAN, token : Nat, expires : Nat]]
         /\ IssuedInOrder' /\ SlotsHoldTokens'
<1> DEFINE t == authHist.issued
           n == Len(t)
           total == authHist.total
           c == Auth!SlotToUse
           new == [token |-> total + 1, at |-> now]
           u == Append(t, new)
<1>1. /\ t \in Seq([token : Nat, at : Nat]) /\ total \in Nat /\ now \in Nat
      /\ slots \in [Auth!Slots -> [used : BOOLEAN, token : Nat, expires : Nat]]
  BY DEF AuthInv, AuthFields
<1>2. /\ slots' = [slots EXCEPT ![c] = [used |-> TRUE, token |-> total + 1,
                                        expires |-> now + Ttl]]
      /\ authHist'.issued = u /\ authHist'.total = total + 1
      /\ \A k \in 1 .. n : t[k].at < now
  <2>1. authHist' = [authHist EXCEPT !.total = @ + 1, !.wrong = wrong, !.issued = u]
    BY DEF Auth!IssueToken
  <2>2. authHist = [issued |-> authHist.issued, wrong |-> authHist.wrong,
                    total |-> authHist.total, restarts |-> authHist.restarts]
    BY DEF AuthInv, AuthFields
  <2>3. authHist'.issued = u /\ authHist'.total = total + 1
    BY <2>1, <2>2
  <2>4. DOMAIN t = 1 .. n
    BY <1>1
  <2> QED
    BY <2>3, <2>4 DEF Auth!IssueToken
<1>30. new \in [token : Nat, at : Nat]
  BY <1>1
<1>31. \A k \in 1 .. n : t[k] \in [token : Nat, at : Nat]
  BY <1>1, SeqElements, Zenon
<1>3. n \in Nat
  BY <1>1, SeqElements, Zenon
<1>40. u \in Seq([token : Nat, at : Nat])
  BY <1>1, <1>30, SeqAppended, Zenon
<1>4. Len(u) = n + 1 /\ u[n + 1] = new /\ \A k \in 1 .. n : u[k] = t[k]
  <2> HIDE DEF t, new
  <2> QED
    BY <1>1, <1>30, SeqAppended
<1>5. c \in Auth!Slots
  BY SlotTaken DEF AuthInv
<1>6. slots' \in [Auth!Slots -> [used : BOOLEAN, token : Nat, expires : Nat]]
  BY <1>1, <1>2, <1>5, ControlAssumption, SMTT(30)
<1>7. /\ slots'[c] = [used |-> TRUE, token |-> total + 1, expires |-> now + Ttl]
      /\ \A s \in Auth!Slots : s # c => slots'[s] = slots[s]
  BY <1>1, <1>2, <1>5
<1>8. n <= total /\ \A k \in 1 .. n : t[k].token = total - n + k
  BY DEF AuthInv, IssuedInOrder, InOrder
<1>9. \A j, k \in 1 .. n : j < k => t[j].at < t[k].at
  BY DEF AuthInv, IssuedInOrder, InOrder
<1>10. /\ \A s \in Auth!Slots : slots[s].used =>
            \E k \in 1 .. n : slots[s].token = t[k].token /\ slots[s].expires = t[k].at + Ttl
       /\ \A s, r \in Auth!Slots :
            slots[s].used /\ slots[r].used /\ slots[s].token = slots[r].token => s = r
       /\ \A k \in 1 .. n : n - k < MaxTokens /\ now < t[k].at + Ttl =>
            \E s \in Auth!Slots : slots[s].used /\ slots[s].token = t[k].token
  BY DEF AuthInv, SlotsHoldTokens
<1>11. \/ ~slots[c].used \/ slots[c].expires <= now
       \/ /\ \A s \in Auth!Slots : slots[s].used
          /\ \A s \in Auth!Slots : slots[c].expires <= slots[s].expires
  BY SlotTaken DEF AuthInv
<1>12. ASSUME NEW k \in 1 .. n, slots[c].token = t[k].token,
              \A s \in Auth!Slots : slots[s].used,
              \A s \in Auth!Slots : slots[c].expires <= slots[s].expires
       PROVE  MaxTokens <= n - k + 1
  BY <1>5, <1>12, EvictedIsOld DEF AuthInv
<1>13. /\ authHist'.issued = u /\ authHist'.total = total + 1
  BY <1>2
<1>14. \A k \in 1 .. n : t[k].at < now
  BY <1>2
<1> HIDE DEF t, n, u, new, total, c
<1>15. new.token = total + 1 /\ new.at = now
  BY DEF new
<1>16. \A k \in 1 .. n : t[k].at \in Nat /\ t[k].token \in Nat /\ t[k].token <= total
  BY <1>1, <1>3, <1>31, <1>8, SMTT(30)
<1>17. IssuedInOrder'
  <2>1. Len(u) <= total + 1
    BY <1>1, <1>3, <1>4, <1>8
  <2>2. ASSUME NEW k \in 1 .. Len(u)
        PROVE  u[k].token = (total + 1) - Len(u) + k /\ u[k].at <= now
    <3>1. CASE k = n + 1
      BY <1>1, <1>3, <1>4, <1>15, <3>1
    <3>2. CASE k \in 1 .. n
      <4>1. u[k] = t[k] /\ Len(u) = n + 1
        BY <1>4, <3>2
      <4>2. t[k].token = total - n + k /\ t[k].at < now /\ t[k].at \in Nat
        BY <1>8, <1>14, <1>16, <3>2
      <4>3. total - n + k = (total + 1) - (n + 1) + k
        BY <1>1, <1>3, <3>2
      <4> QED
        BY <1>1, <4>1, <4>2, <4>3, SMTT(30)
    <3> QED
      BY <1>3, <1>4, <3>1, <3>2
  <2>3. ASSUME NEW j \in 1 .. Len(u), NEW k \in 1 .. Len(u), j < k
        PROVE  u[j].at < u[k].at
    <3>1. j \in 1 .. n
      BY <1>3, <1>4, <2>3
    <3>2. CASE k = n + 1
      BY <1>4, <1>14, <1>15, <3>1, <3>2
    <3>3. CASE k \in 1 .. n
      BY <1>4, <1>9, <2>3, <3>1, <3>3
    <3> QED
      BY <1>3, <1>4, <3>2, <3>3
  <2>4. InOrder(u, total + 1, now)
    BY <2>1, <2>2, <2>3 DEF InOrder
  <2> QED
    BY <1>13, <2>4 DEF IssuedInOrder, InOrder
<1>18. SlotsHoldTokens'
  <2>1. ASSUME NEW s \in Auth!Slots, slots'[s].used
        PROVE  \E k \in 1 .. Len(u) :
                 slots'[s].token = u[k].token /\ slots'[s].expires = u[k].at + Ttl
    <3>1. CASE s = c
      <4>1. n + 1 \in 1 .. Len(u)
        BY <1>3, <1>4
      <4>2. slots'[s].token = u[n + 1].token /\ slots'[s].expires = u[n + 1].at + Ttl
        BY <1>4, <1>7, <1>15, <3>1
      <4> QED
        BY <4>1, <4>2
    <3>2. CASE s # c
      <4>1. PICK k \in 1 .. n : slots[s].token = t[k].token /\ slots[s].expires = t[k].at + Ttl
        BY <1>7, <1>10, <2>1, <3>2
      <4>2. k \in 1 .. Len(u) /\ u[k] = t[k]
        BY <1>3, <1>4
      <4> QED
        BY <1>7, <3>2, <4>1, <4>2
    <3> QED
      BY <3>1, <3>2
  <2>2. ASSUME NEW s \in Auth!Slots, NEW r \in Auth!Slots,
               slots'[s].used, slots'[r].used, slots'[s].token = slots'[r].token
        PROVE  s = r
    <3>1. ASSUME NEW q \in Auth!Slots, q # c, slots'[q].used  PROVE slots'[q].token <= total
      <4>1. PICK k \in 1 .. n : slots[q].token = t[k].token
        BY <1>7, <1>10, <3>1
      <4> QED
        BY <1>7, <1>16, <3>1, <4>1
    <3>2. slots'[c].token = total + 1
      BY <1>7
    <3>3. CASE s = c \/ r = c
      BY <1>1, <2>2, <3>1, <3>2, <3>3
    <3>4. CASE s # c /\ r # c
      BY <1>7, <1>10, <2>2, <3>4
    <3> QED
      BY <3>3, <3>4
  <2>3. ASSUME NEW k \in 1 .. Len(u), Len(u) - k < MaxTokens, now < u[k].at + Ttl
        PROVE  \E s \in Auth!Slots : slots'[s].used /\ slots'[s].token = u[k].token
    <3>1. CASE k = n + 1
      BY <1>4, <1>5, <1>7, <1>15, <3>1
    <3>2. CASE k \in 1 .. n
      <4>1. n - k < MaxTokens /\ now < t[k].at + Ttl /\ ~(MaxTokens <= n - k + 1)
        BY <1>3, <1>4, <2>3, <3>2, ControlAssumption
      <4>2. PICK s \in Auth!Slots : slots[s].used /\ slots[s].token = t[k].token
        BY <1>10, <3>2, <4>1
      <4>3. slots[s].expires > now
        <5>1. PICK j \in 1 .. n : /\ slots[s].token = t[j].token
                                  /\ slots[s].expires = t[j].at + Ttl
          BY <1>10, <4>2
        <5>2. total - n + j = total - n + k
          BY <1>8, <3>2, <4>2, <5>1
        <5>3. j = k
          BY <1>1, <1>3, <3>2, <5>2
        <5> QED
          BY <1>1, <1>16, <3>2, <4>1, <5>1, <5>3, ControlAssumption
      <4>4. s # c
        <5>1. SUFFICES ASSUME s = c  PROVE FALSE
          OBVIOUS
        <5>2. slots[c].expires \in Nat
          BY <1>1, <1>5
        <5>3. ~(~slots[c].used \/ slots[c].expires <= now)
          BY <1>1, <4>2, <4>3, <5>1, <5>2
        <5> QED
          BY <1>11, <1>12, <3>2, <4>1, <4>2, <5>1, <5>3
      <4> QED
        BY <1>4, <1>7, <3>2, <4>2, <4>4
    <3> QED
      BY <1>3, <1>4, <3>1, <3>2
  <2> QED
    BY <1>13, <2>1, <2>2, <2>3 DEF SlotsHoldTokens
<1> QED
  BY <1>40, <1>6, <1>13, <1>17, <1>18

\* A wrong password starts the next round or ends one.
LEMMA WrongStep ==
  ASSUME AuthInv, Auth!LoginWrong
  PROVE  WrongInRounds'
<1> DEFINE w == authHist.wrong
           n == Len(w)
           v == Append(w, now)
           f == login.failures
           until == login.until
<1>1. /\ w \in Seq(Nat) /\ now \in Nat /\ f \in Nat /\ until \in Nat
      /\ now >= until
  BY DEF AuthInv, AuthFields, Auth!LoginWrong, Auth!MayLogin
<1>2. n \in Nat /\ \A k \in 1 .. n : w[k] \in Nat
  BY <1>1, SeqElements
<1>3. Len(v) = n + 1 /\ v[n + 1] = now /\ \A k \in 1 .. n : v[k] = w[k]
  BY <1>1, SeqAppended
<1>4. authHist'.wrong = v /\ now' = now
  <2>1. authHist' = [authHist EXCEPT !.wrong = v]
    BY DEF Auth!LoginWrong
  <2>2. authHist = [issued |-> authHist.issued, wrong |-> authHist.wrong,
                    total |-> authHist.total, restarts |-> authHist.restarts]
    BY DEF AuthInv, AuthFields
  <2> QED
    BY <2>1, <2>2 DEF Auth!LoginWrong
<1>5. \/ f + 1 >= MaxFailures /\ login'.failures = 0 /\ login'.until = now + Lockout
      \/ f + 1 < MaxFailures /\ login'.failures = f + 1 /\ login'.until = until
  <2>1. login' = [failures |-> IF Auth!Locks THEN 0 ELSE f + 1,
                  until |-> IF Auth!Locks THEN now + Lockout ELSE until]
    BY DEF Auth!LoginWrong
  <2>2. Auth!Locks <=> f + 1 >= MaxFailures
    BY DEF Auth!Locks
  <2> HIDE DEF f, until
  <2> QED
    BY <1>1, <2>1, <2>2, ControlAssumption
<1>6. /\ f < MaxFailures /\ f <= n
      /\ \A j \in 1 .. n : w[j] <= now
      /\ \A j, k \in 1 .. n : j <= k => w[j] <= w[k]
      /\ \A j, k \in 1 .. n : j + MaxFailures <= k => w[j] + Lockout <= w[k]
      /\ \A j \in 1 .. n : j <= n - f => w[j] + Lockout <= until
  BY DEF AuthInv, WrongInRounds, Rounds
<1> HIDE DEF w, n, v, f, until
<1>7. \A j \in 1 .. Len(v) : v[j] <= now
  BY <1>1, <1>2, <1>3, <1>6
<1>8. ASSUME NEW j \in 1 .. Len(v), NEW k \in 1 .. Len(v), j <= k
      PROVE  v[j] <= v[k]
  <2>1. CASE k = n + 1
    BY <1>3, <1>7, <2>1
  <2>2. CASE k \in 1 .. n
    BY <1>2, <1>3, <1>6, <1>8, <2>2
  <2> QED
    BY <1>2, <1>3, <2>1, <2>2
<1>9. ASSUME NEW j \in 1 .. Len(v), NEW k \in 1 .. Len(v), j + MaxFailures <= k
      PROVE  v[j] + Lockout <= v[k]
  <2>0. j \in 1 .. n
    BY <1>2, <1>3, <1>9, ControlAssumption
  <2>1. CASE k = n + 1
    <3>1. j <= n - f
      BY <1>1, <1>2, <1>6, <1>9, <2>0, <2>1, ControlAssumption
    <3>2. w[j] + Lockout <= until /\ w[j] \in Nat
      BY <1>2, <1>6, <2>0, <3>1
    <3> QED
      BY <1>1, <1>3, <2>0, <2>1, <3>2, ControlAssumption
  <2>2. CASE k \in 1 .. n
    BY <1>3, <1>6, <1>9, <2>0, <2>2
  <2> QED
    BY <1>2, <1>3, <2>1, <2>2
<1>10. ASSUME NEW j \in 1 .. Len(v), j <= Len(v) - login'.failures
       PROVE  v[j] + Lockout <= login'.until
  <2>1. CASE login'.failures = 0 /\ login'.until = now + Lockout
    <3>1. v[j] <= now /\ v[j] \in Nat
      BY <1>1, <1>2, <1>3, <1>7
    <3> QED
      BY <1>1, <2>1, <3>1, ControlAssumption
  <2>2. CASE login'.failures = f + 1 /\ login'.until = until
    <3>1. j \in 1 .. n /\ j <= n - f
      BY <1>1, <1>2, <1>3, <1>10, <2>2
    <3> QED
      BY <1>3, <1>6, <2>2, <3>1
  <2> QED
    BY <1>5, <2>1, <2>2
<1>11. login'.failures < MaxFailures /\ login'.failures <= Len(v)
  BY <1>1, <1>2, <1>3, <1>5, <1>6, ControlAssumption
<1>12. Rounds(v, login'.failures, login'.until, now)
  BY <1>7, <1>8, <1>9, <1>10, <1>11 DEF Rounds
<1> QED
  BY <1>4, <1>12 DEF WrongInRounds, Rounds

\* Setup and LoginRight issue a token; the other steps leave the slots alone.
LEMMA AuthStep ==
  ASSUME AuthInv, Auth!Next
  PROVE  AuthInv'
<1>0. authHist = [issued |-> authHist.issued, wrong |-> authHist.wrong,
                  total |-> authHist.total, restarts |-> authHist.restarts]
  BY DEF AuthInv, AuthFields
<1>1. CASE Auth!Setup
  <2>1. Auth!IssueToken(authHist.wrong) /\ now' = now /\ login' = login
    BY <1>1 DEF Auth!Setup
  <2>2. /\ authHist'.issued \in Seq([token : Nat, at : Nat])
        /\ slots' \in [Auth!Slots -> [used : BOOLEAN, token : Nat, expires : Nat]]
        /\ IssuedInOrder' /\ SlotsHoldTokens'
    BY <2>1, IssueStep
  <2>3. PICK q : authHist' = [authHist EXCEPT !.total = @ + 1, !.wrong = authHist.wrong,
                                              !.issued = q]
    BY <2>1 DEF Auth!IssueToken
  <2>4. /\ authHist'.wrong = authHist.wrong /\ authHist'.total = authHist.total + 1
        /\ authHist' = [issued |-> authHist'.issued, wrong |-> authHist'.wrong,
                        total |-> authHist'.total, restarts |-> authHist'.restarts]
    BY <1>0, <2>3
  <2>5. AuthFields'
    BY <2>1, <2>2, <2>4 DEF AuthInv, AuthFields
  <2>6. WrongInRounds'
    BY <2>1, <2>4 DEF AuthInv, WrongInRounds, Rounds
  <2> QED
    BY <2>2, <2>5, <2>6 DEF AuthInv
<1>2. CASE Auth!LoginRight
  <2>1. /\ Auth!IssueToken(<< >>) /\ now' = now
        /\ login' = [failures |-> 0, until |-> 0]
    BY <1>2 DEF Auth!LoginRight
  <2>2. /\ authHist'.issued \in Seq([token : Nat, at : Nat])
        /\ slots' \in [Auth!Slots -> [used : BOOLEAN, token : Nat, expires : Nat]]
        /\ IssuedInOrder' /\ SlotsHoldTokens'
    BY <2>1, IssueStep
  <2>3. PICK q : authHist' = [authHist EXCEPT !.total = @ + 1, !.wrong = << >>,
                                              !.issued = q]
    BY <2>1 DEF Auth!IssueToken
  <2>4. /\ authHist'.wrong = << >> /\ authHist'.total = authHist.total + 1
        /\ authHist' = [issued |-> authHist'.issued, wrong |-> authHist'.wrong,
                        total |-> authHist'.total, restarts |-> authHist'.restarts]
    BY <1>0, <2>3
  <2>5. AuthFields'
    BY <2>1, <2>2, <2>4 DEF AuthInv, AuthFields
  <2>6. WrongInRounds'
    BY <2>1, <2>4, ControlAssumption DEF WrongInRounds, Rounds
  <2> QED
    BY <2>2, <2>5, <2>6 DEF AuthInv
<1>3. CASE Auth!LoginWrong
  <2>1. WrongInRounds'
    BY <1>3, WrongStep
  <2>2. /\ authHist' = [authHist EXCEPT !.wrong = Append(authHist.wrong, now)]
        /\ UNCHANGED <<now, slots>>
    BY <1>3 DEF Auth!LoginWrong
  <2>3. /\ authHist'.issued = authHist.issued /\ authHist'.total = authHist.total
        /\ authHist'.wrong = Append(authHist.wrong, now)
        /\ authHist' = [issued |-> authHist'.issued, wrong |-> authHist'.wrong,
                        total |-> authHist'.total, restarts |-> authHist'.restarts]
    BY <1>0, <2>2
  <2>4. /\ login' = [failures |-> login'.failures, until |-> login'.until]
        /\ login'.failures \in Nat /\ login'.until \in Nat
    BY <1>3, ControlAssumption, SMTT(30) DEF Auth!LoginWrong, AuthInv, AuthFields
  <2>5. authHist'.wrong \in Seq(Nat)
    BY <2>3, SeqAppended DEF AuthInv, AuthFields
  <2>6. AuthFields'
    BY <2>2, <2>3, <2>4, <2>5 DEF AuthInv, AuthFields
  <2>7. IssuedInOrder' /\ SlotsHoldTokens'
    BY <2>2, <2>3 DEF AuthInv, IssuedInOrder, InOrder, SlotsHoldTokens
  <2> QED
    BY <2>1, <2>6, <2>7 DEF AuthInv
<1>4. CASE Auth!Tick
  <2>1. now \in Nat /\ now' = now + 1 /\ UNCHANGED <<slots, login, authHist>>
    BY <1>4 DEF Auth!Tick, AuthInv, AuthFields
  <2>2. AuthFields'
    BY <2>1 DEF AuthInv, AuthFields
  <2>3. \A k \in 1 .. Len(authHist.wrong) : authHist.wrong[k] \in Nat
    BY SeqElements DEF AuthInv, AuthFields
  <2>4. \A k \in 1 .. Len(authHist.issued) : authHist.issued[k].at \in Nat
    <3>1. \A k \in 1 .. Len(authHist.issued) : authHist.issued[k] \in [token : Nat, at : Nat]
      BY SeqElements, Zenon DEF AuthInv, AuthFields
    <3> QED
      BY <3>1
  <2>5. WrongInRounds'
    BY <2>1, <2>3 DEF AuthInv, WrongInRounds, Rounds
  <2>6. IssuedInOrder'
    BY <2>1, <2>4 DEF AuthInv, IssuedInOrder, InOrder
  <2>7. SlotsHoldTokens'
    BY <2>1, <2>4, ControlAssumption, SMTT(30) DEF AuthInv, SlotsHoldTokens
  <2> QED
    BY <2>2, <2>5, <2>6, <2>7 DEF AuthInv
<1>5. CASE Auth!Restart
  <2>1. /\ authHist'.issued = << >> /\ authHist'.wrong = << >>
        /\ authHist'.total = authHist.total
        /\ authHist' = [issued |-> authHist'.issued, wrong |-> authHist'.wrong,
                        total |-> authHist'.total, restarts |-> authHist'.restarts]
        /\ now' = 0 /\ login' = [failures |-> 0, until |-> 0]
        /\ slots' = [s \in Auth!Slots |-> Auth!Empty]
    BY <1>0, <1>5 DEF Auth!Restart, Auth!Fresh
  <2>2. AuthFields'
    BY <2>1 DEF AuthInv, AuthFields, Auth!Empty
  <2> QED
    BY <2>1, <2>2, ControlAssumption DEF AuthInv, AuthFields, WrongInRounds, Rounds,
       IssuedInOrder, InOrder, SlotsHoldTokens, Auth!Empty
<1> QED
  BY <1>1, <1>2, <1>3, <1>4, <1>5 DEF Auth!Next

\* Each of the last AUTH_MAX_TOKENS tokens is accepted until it has aged, no
\* other is, and wrong passwords are slowed: for every number of slots, length
\* of a session, number of failures and length of the lockout
\* (auth_issue_token, web_server_auth_token_valid, auth_login_handler).
THEOREM AccessIsKept == Spec => []AccessKept
<1>1. Init => AuthInv
  <2> SUFFICES ASSUME Init  PROVE AuthInv
    OBVIOUS
  <2>1. /\ authHist = [issued |-> << >>, wrong |-> << >>, total |-> 0, restarts |-> 0]
        /\ now = 0 /\ login = [failures |-> 0, until |-> 0]
        /\ slots = [s \in Auth!Slots |-> Auth!Empty]
    BY DEF Init, Auth!Init
  <2>2. AuthFields
    BY <2>1 DEF AuthFields, Auth!Empty
  <2> QED
    BY <2>1, <2>2, ControlAssumption DEF AuthInv, WrongInRounds, Rounds, IssuedInOrder,
       InOrder, SlotsHoldTokens, Auth!Empty
<1>2. AuthInv /\ [Next]_vars => AuthInv'
  <2> SUFFICES ASSUME AuthInv, [Next]_vars  PROVE AuthInv'
    OBVIOUS
  <2>1. CASE AuthNext
    BY <2>1, AuthStep DEF AuthNext
  <2>2. CASE UNCHANGED authVars
    BY <2>2 DEF authVars, AuthInv, AuthFields, WrongInRounds, Rounds, IssuedInOrder,
       InOrder, SlotsHoldTokens
  <2> QED
    BY <2>1, <2>2 DEF Next, vars, SettingsNext, PlaybackNext, PageNext, DacpNext
<1>3. AuthInv => AccessKept
  <2> SUFFICES ASSUME AuthInv  PROVE AccessKept
    OBVIOUS
  <2>1. Auth!NewestTokensWork
    BY SlotsMakeTokensWork DEF AuthInv
  <2>2. DOMAIN authHist.wrong = 1 .. Len(authHist.wrong)
    BY SeqElements DEF AuthInv, AuthFields
  <2>3. Auth!LoginThrottled
    BY <2>2 DEF AuthInv, WrongInRounds, Rounds, Auth!LoginThrottled
  <2> QED
    BY <2>1, <2>3 DEF AccessKept, Auth!AccessKept
<1> QED
  BY <1>1, <1>2, <1>3, PTL DEF Spec

-----------------------------------------------------------------------------
(* The settings (Settings).                                                *)

\* The steps a handler has left, the i-th and those after it.
Left(p, x) == \E i \in 1 .. Len(p) : p[i] = x
Later(p, i, x) == \E j \in 1 .. Len(p) : i < j /\ p[j] = x

SettingSteps ==
  {"get", "same", "ram", "a", "b", "commit", "local", "apply", "reply", "restart"}

\* The keys of setting s, and those of them that a handler writes.
KeysOf(s) == IF s \in {"name", "gain"} THEN {"a"} ELSE {"a", "b"}
Stored(h, s) == {h.store.sets[i] : i \in DOMAIN h.store.sets} \cap KeysOf(s)

\* What a step of a handler leaves to do: writes are committed and made known to
\* whoever runs with them, and nothing is written after that.
InPlace(p, i, h, s) ==
  /\ p[i] \in SettingSteps /\ ~Later(p, i, "get")
  /\ p[i] = "get" => \A k \in Stored(h, s) : Later(p, i, k)
  /\ p[i] = "same" => Later(p, i, "ram")
  /\ p[i] \notin {"get", "same"} => ~Later(p, i, "ram")
  /\ p[i] \in {"a", "b"} =>
       /\ p[i] \in Stored(h, s) /\ Later(p, i, "commit")
       /\ h.apply \in {"local", "reread", "restart"} =>
            Later(p, i, "local") \/ Later(p, i, "apply") \/ Later(p, i, "restart")
  /\ p[i] \in {"local", "apply", "reply", "restart"} =>
       \A x \in {"a", "b", "commit", "local", "apply"} : ~Later(p, i, x)
  /\ p[i] \in {"reply", "restart"} => ~Later(p, i, "reply")
  /\ p[i] \notin {"reply", "restart"} => Later(p, i, "reply")
  /\ p[i] = "local" => s \in {"tone", "protection"}
  /\ p[i] \in {"same", "ram"} => s = "gain"
  /\ p[i] = "apply" => s # "gain"

Orderly(p, h, s) == \A i \in 1 .. Len(p) : InPlace(p, i, h, s)

\* What a handler does, keeps and sets in motion.
Does(h, s, settings, partial, keys, apply, steps) ==
  /\ s \in settings /\ h.partial = partial /\ Stored(h, s) = keys
  /\ h.apply = apply /\ Set!Steps(h) = steps

ProgramKnown(h, s) ==
  \/ Does(h, s, {"wifi"}, FALSE, {"a", "b"}, "restart",
          <<"a", "b", "commit", "reply", "restart">>)
  \/ Does(h, s, {"name"}, FALSE, {"a"}, "boot", <<"a", "commit", "reply">>)
  \/ Does(h, s, {"gain"}, FALSE, {"a"}, "ram", <<"same", "ram", "a", "commit", "reply">>)
  \/ Does(h, s, {"gain"}, TRUE, {"a"}, "ram",
          <<"get", "same", "ram", "a", "commit", "reply">>)
  \/ Does(h, s, {"matrix", "argb", "mqtt"}, TRUE, {"a", "b"}, "reread",
          <<"get", "a", "b", "commit", "apply", "reply">>)
  \/ Does(h, s, {"tone"}, TRUE, {"a", "b"}, "local",
          <<"get", "a", "b", "commit", "local", "reply">>)
  \/ Does(h, s, {"buttons"}, TRUE, {"a", "b"}, "boot",
          <<"get", "a", "b", "commit", "reply">>)
  \/ Does(h, s, {"protection"}, TRUE, {"a", "b"}, "local",
          <<"get", "a", "commit", "b", "commit", "local", "reply">>)
  \/ Does(h, s, {"protection"}, TRUE, {"a"}, "reread",
          <<"get", "a", "commit", "apply", "reply">>)
  \/ Does(h, s, {"protection"}, TRUE, {"b"}, "never", <<"get", "b", "commit", "reply">>)

HandlerKnown(h, s) ==
  /\ h.store.cache = IF s = "gain" THEN "first" ELSE "none"
  /\ h.obeys = TRUE \/ (h.obeys = FALSE /\ s = "tone")
  /\ ProgramKnown(h, s)

\* A task, and a task in a handler, which is one of the setting's own.
Task(w, s) ==
  /\ w = [todo |-> w.todo, new |-> w.new, chg |-> w.chg, err |-> w.err, handler |-> w.handler]
  /\ w.todo \in Seq(SettingSteps) /\ DOMAIN w.new = {"a", "b"}
  /\ Orderly(w.todo, w.handler, s)
InHandler(w, s, failed) ==
  w.todo # << >> =>
    /\ HandlerKnown(w.handler, s)
    /\ w.chg # {} /\ w.chg \subseteq Stored(w.handler, s)
    /\ w.err \in BOOLEAN /\ (w.err => failed)

SettingFields ==
  /\ setting \in Set!SettingNames
  /\ DOMAIN flash = {"a", "b"} /\ DOMAIN durable = {"a", "b"} /\ DOMAIN live = {"a", "b"}
  /\ DOMAIN asked = {"a", "b"}
  /\ setHist = [overlap |-> setHist.overlap, failed |-> setHist.failed,
                unapplied |-> setHist.unapplied, requests |-> setHist.requests,
                faults |-> setHist.faults, cuts |-> setHist.cuts]
  /\ writer = [t \in Set!Writers |-> writer[t]]
  /\ \A t \in Set!Writers : Task(writer[t], setting)

Handlers == \A t \in Set!Writers : InHandler(writer[t], setting, setHist.failed)

\* What SavedAsAnswered is about.
Calm(s, hist) == ~hist.overlap /\ ~(s = "gain" /\ hist.failed)
Busy(w) == w.todo # << >>
OneBusy ==
  ~setHist.overlap => \A t, u \in Set!Writers : Busy(writer[t]) /\ Busy(writer[u]) => t = u

\* A handler has written what it has no step left to write, and keeps what it
\* has read.
Written(w, fl, du, s) ==
  /\ ~w.err => \A k \in Stored(w.handler, s) :
       /\ ~Left(w.todo, k) => fl[k] = w.new[k]
       /\ ~Left(w.todo, "commit") => du[k] = w.new[k]
  /\ ~Left(w.todo, "get") => \A k \in Stored(w.handler, s) \ w.chg : w.new[k] = fl[k]

\* What the flash holds was answered, or is being saved.
Known(v, k, ask, ws) ==
  v \in ask[k] \/ \E t \in Set!Writers : Busy(ws[t]) /\ k \in ws[t].chg /\ v = ws[t].new[k]

Saved ==
  Calm(setting, setHist) =>
    /\ \A t \in Set!Writers : Busy(writer[t]) => Written(writer[t], flash, durable, setting)
    /\ \A k \in KeysOf(setting) :
         Known(flash[k], k, asked, writer) /\ Known(durable[k], k, asked, writer)

\* The gain in RAM: what the flash holds, and from its step on what is being saved.
GainKept ==
  setting = "gain" /\ Calm(setting, setHist) =>
    /\ (\A t \in Set!Writers : Busy(writer[t]) => Left(writer[t].todo, "ram"))
         => live["a"] = flash["a"] /\ durable["a"] = flash["a"]
    /\ \A t \in Set!Writers :
         Busy(writer[t]) /\ ~Left(writer[t].todo, "ram") => live["a"] = writer[t].new["a"]

\* A key the device does not run with yet has a handler that will see to it.
SeenTo(w, k, s) ==
  /\ k \in Stored(w.handler, s)
  /\ \/ Left(w.todo, "local") \/ Left(w.todo, "apply") \/ Left(w.todo, "restart")
     \/ w.handler.apply = "never" /\ Left(w.todo, "reply")

\* What LiveIsSaved is about.
Followed(s, hist) ==
  /\ ~hist.failed /\ ~hist.unapplied /\ s \notin {"name", "buttons", "gain"}
  /\ hist.overlap => s \in {"matrix", "argb", "mqtt", "wifi"}

Applied ==
  Followed(setting, setHist) =>
    \A k \in {"a", "b"} :
      live[k] # flash[k] => \E t \in Set!Writers : SeenTo(writer[t], k, setting)

SettingsInv == SettingFields /\ Handlers /\ OneBusy /\ Saved /\ GainKept /\ Applied

-----------------------------------------------------------------------------
(* What the steps of a handler are.                                        *)

LEMMA LeftIs ==
  ASSUME NEW p \in Seq(SettingSteps), p # << >>
  PROVE  /\ \A x : Left(p, x) <=> Head(p) = x \/ Left(Tail(p), x)
         /\ \A x : Later(p, 1, x) <=> Left(Tail(p), x)
         /\ \A i \in 1 .. Len(Tail(p)) : \A x : Later(Tail(p), i, x) <=> Later(p, i + 1, x)
         /\ Tail(p) \in Seq(SettingSteps) /\ Len(p) \in Nat \ {0} /\ p[1] = Head(p)
         /\ \A i \in 1 .. Len(Tail(p)) : Tail(p)[i] = p[i + 1] /\ i + 1 \in 1 .. Len(p)
<1>1. /\ Tail(p) \in Seq(SettingSteps) /\ Len(p) \in Nat \ {0} /\ p[1] = Head(p)
      /\ Len(Tail(p)) = Len(p) - 1
      /\ \A i \in 1 .. Len(Tail(p)) : Tail(p)[i] = p[i + 1] /\ i + 1 \in 1 .. Len(p)
  OBVIOUS
<1>2. \A j \in 1 .. Len(p) : 1 < j => j - 1 \in 1 .. Len(Tail(p)) /\ p[j] = Tail(p)[j - 1]
  BY <1>1
<1>3. \A x : Left(p, x) <=> Head(p) = x \/ Left(Tail(p), x)
  <2> TAKE x
  <2>1. ASSUME Left(p, x) PROVE Head(p) = x \/ Left(Tail(p), x)
    BY <2>1, <1>1, <1>2 DEF Left
  <2>2. ASSUME Head(p) = x \/ Left(Tail(p), x) PROVE Left(p, x)
    <3>1. CASE Head(p) = x
      BY <3>1, <1>1 DEF Left
    <3>2. CASE Left(Tail(p), x)
      <4>1. PICK j \in 1 .. Len(Tail(p)) : Tail(p)[j] = x
        BY <3>2 DEF Left
      <4> QED
        BY <4>1, <1>1 DEF Left
    <3> QED
      BY <2>2, <3>1, <3>2
  <2> QED
    BY <2>1, <2>2
<1>4. \A i \in 0 .. Len(Tail(p)) : \A x :
        Later(p, i + 1, x) <=> \E j \in 1 .. Len(Tail(p)) : i < j /\ Tail(p)[j] = x
  <2> TAKE i \in 0 .. Len(Tail(p))
  <2> TAKE x
  <2>1. ASSUME NEW j \in 1 .. Len(p), i + 1 < j, p[j] = x
        PROVE  \E k \in 1 .. Len(Tail(p)) : i < k /\ Tail(p)[k] = x
    <3>1. j - 1 \in 1 .. Len(Tail(p)) /\ i < j - 1 /\ Tail(p)[j - 1] = x
      BY <2>1, <1>1, <1>2
    <3> QED
      BY <3>1
  <2>2. ASSUME NEW k \in 1 .. Len(Tail(p)), i < k, Tail(p)[k] = x
        PROVE  Later(p, i + 1, x)
    <3>1. k + 1 \in 1 .. Len(p) /\ i + 1 < k + 1 /\ p[k + 1] = x
      BY <2>2, <1>1
    <3> QED
      BY <3>1 DEF Later
  <2> QED
    BY <2>1, <2>2 DEF Later
<1>5. \A x : Later(p, 1, x) <=> Left(Tail(p), x)
  <2>1. 0 \in 0 .. Len(Tail(p)) /\ 0 + 1 = 1 /\ \A j \in 1 .. Len(Tail(p)) : 0 < j
    BY <1>1
  <2> QED
    BY <2>1, <1>4 DEF Left
<1>6. \A i \in 1 .. Len(Tail(p)) : \A x : Later(Tail(p), i, x) <=> Later(p, i + 1, x)
  <2>1. \A i \in 1 .. Len(Tail(p)) : i \in 0 .. Len(Tail(p))
    BY <1>1
  <2> QED
    BY <2>1, <1>4 DEF Later
<1> QED
  BY <1>1, <1>3, <1>5, <1>6

LEMMA NoneLeft == \A x : ~Left(<< >>, x)
BY DEF Left

LEMMA OrderlyTail ==
  ASSUME NEW p \in Seq(SettingSteps), p # << >>, NEW h, NEW s, Orderly(p, h, s)
  PROVE  Orderly(Tail(p), h, s)
<1> SUFFICES ASSUME NEW i \in 1 .. Len(Tail(p))  PROVE InPlace(Tail(p), i, h, s)
  BY DEF Orderly
<1>1. InPlace(p, i + 1, h, s)
  BY LeftIs DEF Orderly
<1>2. Tail(p)[i] = p[i + 1] /\ \A x : Later(Tail(p), i, x) <=> Later(p, i + 1, x)
  BY LeftIs
<1> QED
  BY <1>1, <1>2 DEF InPlace

\* What the first step of a handler leaves.
LEMMA FirstStep ==
  ASSUME NEW p \in Seq(SettingSteps), p # << >>, NEW h, NEW s, Orderly(p, h, s)
  PROVE  /\ ~Left(Tail(p), "get")
         /\ Head(p) = "get" =>
              /\ \A k \in Stored(h, s) : Left(Tail(p), k)
              /\ Stored(h, s) # {} => Left(Tail(p), "commit")
         /\ Head(p) = "same" => Left(Tail(p), "ram")
         /\ Head(p) \notin {"get", "same"} => ~Left(Tail(p), "ram")
         /\ Head(p) \in {"a", "b"} =>
              /\ Head(p) \in Stored(h, s) /\ Left(Tail(p), "commit")
              /\ h.apply \in {"local", "reread", "restart"} =>
                   Left(Tail(p), "local") \/ Left(Tail(p), "apply") \/ Left(Tail(p), "restart")
         /\ Head(p) \in {"local", "apply", "reply", "restart"} =>
              \A x \in {"a", "b", "commit", "local", "apply"} : ~Left(Tail(p), x)
         /\ Head(p) \in {"reply", "restart"} => ~Left(Tail(p), "reply")
         /\ Head(p) \notin {"reply", "restart"} => Left(Tail(p), "reply")
         /\ Head(p) = "local" => s \in {"tone", "protection"}
         /\ Head(p) \in {"same", "ram"} => s = "gain"
         /\ Head(p) = "apply" => s # "gain"
         /\ ~Left(Tail(p), "commit") => ~Left(Tail(p), "a") /\ ~Left(Tail(p), "b")
<1>1. InPlace(p, 1, h, s)
  BY LeftIs DEF Orderly
<1>2. p[1] = Head(p) /\ \A x : Later(p, 1, x) <=> Left(Tail(p), x)
  BY LeftIs
<1>3. ASSUME Left(Tail(p), "a") \/ Left(Tail(p), "b") PROVE Left(Tail(p), "commit")
  <2>1. PICK j \in 1 .. Len(Tail(p)) : Tail(p)[j] \in {"a", "b"}
    BY <1>3 DEF Left
  <2>2. InPlace(Tail(p), j, h, s)
    BY OrderlyTail DEF Orderly
  <2> QED
    BY <2>1, <2>2 DEF InPlace, Later, Left
<1>4. Stored(h, s) \subseteq {"a", "b"}
  BY DEF Stored, KeysOf
<1>5. ASSUME Head(p) = "get", Stored(h, s) # {}  PROVE Left(Tail(p), "commit")
  BY <1>5, <1>1, <1>2, <1>3, <1>4 DEF InPlace
<1> QED
  BY <1>1, <1>2, <1>3, <1>5 DEF InPlace

\* The steps of each handler, put together.
LEMMA ProgramsAre ==
  /\ (((<< >> \o <<"a", "b", "commit">>) \o << >>) \o <<"reply">>) \o <<"restart">>
       = <<"a", "b", "commit", "reply", "restart">>
  /\ (((<< >> \o <<"a", "commit">>) \o << >>) \o <<"reply">>) \o << >>
       = <<"a", "commit", "reply">>
  /\ (((<< >> \o (<<"same", "ram">> \o <<"a", "commit">>)) \o << >>) \o <<"reply">>) \o << >>
       = <<"same", "ram", "a", "commit", "reply">>
  /\ (((<<"get">> \o (<<"same", "ram">> \o <<"a", "commit">>)) \o << >>) \o <<"reply">>) \o << >>
       = <<"get", "same", "ram", "a", "commit", "reply">>
  /\ (((<<"get">> \o <<"a", "b", "commit">>) \o <<"apply">>) \o <<"reply">>) \o << >>
       = <<"get", "a", "b", "commit", "apply", "reply">>
  /\ (((<<"get">> \o <<"a", "b", "commit">>) \o <<"local">>) \o <<"reply">>) \o << >>
       = <<"get", "a", "b", "commit", "local", "reply">>
  /\ (((<<"get">> \o <<"a", "b", "commit">>) \o << >>) \o <<"reply">>) \o << >>
       = <<"get", "a", "b", "commit", "reply">>
  /\ (((<<"get">> \o (<<"a", "commit">> \o <<"b", "commit">>)) \o <<"local">>) \o <<"reply">>) \o << >>
       = <<"get", "a", "commit", "b", "commit", "local", "reply">>
  /\ (((<<"get">> \o <<"a", "commit">>) \o <<"apply">>) \o <<"reply">>) \o << >>
       = <<"get", "a", "commit", "apply", "reply">>
  /\ (((<<"get">> \o <<"b", "commit">>) \o << >>) \o <<"reply">>) \o << >>
       = <<"get", "b", "commit", "reply">>
<1>1. (((<< >> \o <<"a", "b", "commit">>) \o << >>) \o <<"reply">>) \o <<"restart">>
       = <<"a", "b", "commit", "reply", "restart">>
  <2> DEFINE s == (((<< >> \o <<"a", "b", "commit">>) \o << >>) \o <<"reply">>) \o <<"restart">>
             r == <<"a", "b", "commit", "reply", "restart">>
  <2>1. /\ s \in Seq(SettingSteps) /\ Len(s) = 5
        /\ s[1] = "a" /\ s[2] = "b" /\ s[3] = "commit" /\ s[4] = "reply"
        /\ s[5] = "restart"
    BY DEF SettingSteps
  <2>2. /\ r \in Seq(SettingSteps) /\ Len(r) = 5
        /\ r[1] = "a" /\ r[2] = "b" /\ r[3] = "commit" /\ r[4] = "reply"
        /\ r[5] = "restart"
    BY DEF SettingSteps
  <2> HIDE DEF s, r
  <2>3. s = r
    BY <2>1, <2>2, SeqEqual
  <2> QED
    BY <2>3 DEF s, r
<1>2. (((<< >> \o <<"a", "commit">>) \o << >>) \o <<"reply">>) \o << >>
       = <<"a", "commit", "reply">>
  <2> DEFINE s == (((<< >> \o <<"a", "commit">>) \o << >>) \o <<"reply">>) \o << >>
             r == <<"a", "commit", "reply">>
  <2>1. /\ s \in Seq(SettingSteps) /\ Len(s) = 3
        /\ s[1] = "a" /\ s[2] = "commit" /\ s[3] = "reply"
    BY DEF SettingSteps
  <2>2. /\ r \in Seq(SettingSteps) /\ Len(r) = 3
        /\ r[1] = "a" /\ r[2] = "commit" /\ r[3] = "reply"
    BY DEF SettingSteps
  <2> HIDE DEF s, r
  <2>3. s = r
    BY <2>1, <2>2, SeqEqual
  <2> QED
    BY <2>3 DEF s, r
<1>3. (((<< >> \o (<<"same", "ram">> \o <<"a", "commit">>)) \o << >>) \o <<"reply">>) \o << >>
       = <<"same", "ram", "a", "commit", "reply">>
  <2> DEFINE s == (((<< >> \o (<<"same", "ram">> \o <<"a", "commit">>)) \o << >>) \o <<"reply">>) \o << >>
             r == <<"same", "ram", "a", "commit", "reply">>
  <2>1. /\ s \in Seq(SettingSteps) /\ Len(s) = 5
        /\ s[1] = "same" /\ s[2] = "ram" /\ s[3] = "a" /\ s[4] = "commit"
        /\ s[5] = "reply"
    BY DEF SettingSteps
  <2>2. /\ r \in Seq(SettingSteps) /\ Len(r) = 5
        /\ r[1] = "same" /\ r[2] = "ram" /\ r[3] = "a" /\ r[4] = "commit"
        /\ r[5] = "reply"
    BY DEF SettingSteps
  <2> HIDE DEF s, r
  <2>3. s = r
    BY <2>1, <2>2, SeqEqual
  <2> QED
    BY <2>3 DEF s, r
<1>4. (((<<"get">> \o (<<"same", "ram">> \o <<"a", "commit">>)) \o << >>) \o <<"reply">>) \o << >>
       = <<"get", "same", "ram", "a", "commit", "reply">>
  <2> DEFINE s == (((<<"get">> \o (<<"same", "ram">> \o <<"a", "commit">>)) \o << >>) \o <<"reply">>) \o << >>
             r == <<"get", "same", "ram", "a", "commit", "reply">>
  <2>1. /\ s \in Seq(SettingSteps) /\ Len(s) = 6
        /\ s[1] = "get" /\ s[2] = "same" /\ s[3] = "ram" /\ s[4] = "a"
        /\ s[5] = "commit" /\ s[6] = "reply"
    BY DEF SettingSteps
  <2>2. /\ r \in Seq(SettingSteps) /\ Len(r) = 6
        /\ r[1] = "get" /\ r[2] = "same" /\ r[3] = "ram" /\ r[4] = "a"
        /\ r[5] = "commit" /\ r[6] = "reply"
    BY DEF SettingSteps
  <2> HIDE DEF s, r
  <2>3. s = r
    BY <2>1, <2>2, SeqEqual
  <2> QED
    BY <2>3 DEF s, r
<1>5. (((<<"get">> \o <<"a", "b", "commit">>) \o <<"apply">>) \o <<"reply">>) \o << >>
       = <<"get", "a", "b", "commit", "apply", "reply">>
  <2> DEFINE s == (((<<"get">> \o <<"a", "b", "commit">>) \o <<"apply">>) \o <<"reply">>) \o << >>
             r == <<"get", "a", "b", "commit", "apply", "reply">>
  <2>1. /\ s \in Seq(SettingSteps) /\ Len(s) = 6
        /\ s[1] = "get" /\ s[2] = "a" /\ s[3] = "b" /\ s[4] = "commit"
        /\ s[5] = "apply" /\ s[6] = "reply"
    BY DEF SettingSteps
  <2>2. /\ r \in Seq(SettingSteps) /\ Len(r) = 6
        /\ r[1] = "get" /\ r[2] = "a" /\ r[3] = "b" /\ r[4] = "commit"
        /\ r[5] = "apply" /\ r[6] = "reply"
    BY DEF SettingSteps
  <2> HIDE DEF s, r
  <2>3. s = r
    BY <2>1, <2>2, SeqEqual
  <2> QED
    BY <2>3 DEF s, r
<1>6. (((<<"get">> \o <<"a", "b", "commit">>) \o <<"local">>) \o <<"reply">>) \o << >>
       = <<"get", "a", "b", "commit", "local", "reply">>
  <2> DEFINE s == (((<<"get">> \o <<"a", "b", "commit">>) \o <<"local">>) \o <<"reply">>) \o << >>
             r == <<"get", "a", "b", "commit", "local", "reply">>
  <2>1. /\ s \in Seq(SettingSteps) /\ Len(s) = 6
        /\ s[1] = "get" /\ s[2] = "a" /\ s[3] = "b" /\ s[4] = "commit"
        /\ s[5] = "local" /\ s[6] = "reply"
    BY DEF SettingSteps
  <2>2. /\ r \in Seq(SettingSteps) /\ Len(r) = 6
        /\ r[1] = "get" /\ r[2] = "a" /\ r[3] = "b" /\ r[4] = "commit"
        /\ r[5] = "local" /\ r[6] = "reply"
    BY DEF SettingSteps
  <2> HIDE DEF s, r
  <2>3. s = r
    BY <2>1, <2>2, SeqEqual
  <2> QED
    BY <2>3 DEF s, r
<1>7. (((<<"get">> \o <<"a", "b", "commit">>) \o << >>) \o <<"reply">>) \o << >>
       = <<"get", "a", "b", "commit", "reply">>
  <2> DEFINE s == (((<<"get">> \o <<"a", "b", "commit">>) \o << >>) \o <<"reply">>) \o << >>
             r == <<"get", "a", "b", "commit", "reply">>
  <2>1. /\ s \in Seq(SettingSteps) /\ Len(s) = 5
        /\ s[1] = "get" /\ s[2] = "a" /\ s[3] = "b" /\ s[4] = "commit"
        /\ s[5] = "reply"
    BY DEF SettingSteps
  <2>2. /\ r \in Seq(SettingSteps) /\ Len(r) = 5
        /\ r[1] = "get" /\ r[2] = "a" /\ r[3] = "b" /\ r[4] = "commit"
        /\ r[5] = "reply"
    BY DEF SettingSteps
  <2> HIDE DEF s, r
  <2>3. s = r
    BY <2>1, <2>2, SeqEqual
  <2> QED
    BY <2>3 DEF s, r
<1>8. (((<<"get">> \o (<<"a", "commit">> \o <<"b", "commit">>)) \o <<"local">>) \o <<"reply">>) \o << >>
       = <<"get", "a", "commit", "b", "commit", "local", "reply">>
  <2> DEFINE s == (((<<"get">> \o (<<"a", "commit">> \o <<"b", "commit">>)) \o <<"local">>) \o <<"reply">>) \o << >>
             r == <<"get", "a", "commit", "b", "commit", "local", "reply">>
  <2>1. /\ s \in Seq(SettingSteps) /\ Len(s) = 7
        /\ s[1] = "get" /\ s[2] = "a" /\ s[3] = "commit" /\ s[4] = "b"
        /\ s[5] = "commit" /\ s[6] = "local" /\ s[7] = "reply"
    BY DEF SettingSteps
  <2>2. /\ r \in Seq(SettingSteps) /\ Len(r) = 7
        /\ r[1] = "get" /\ r[2] = "a" /\ r[3] = "commit" /\ r[4] = "b"
        /\ r[5] = "commit" /\ r[6] = "local" /\ r[7] = "reply"
    BY DEF SettingSteps
  <2> HIDE DEF s, r
  <2>3. s = r
    BY <2>1, <2>2, SeqEqual
  <2> QED
    BY <2>3 DEF s, r
<1>9. (((<<"get">> \o <<"a", "commit">>) \o <<"apply">>) \o <<"reply">>) \o << >>
       = <<"get", "a", "commit", "apply", "reply">>
  <2> DEFINE s == (((<<"get">> \o <<"a", "commit">>) \o <<"apply">>) \o <<"reply">>) \o << >>
             r == <<"get", "a", "commit", "apply", "reply">>
  <2>1. /\ s \in Seq(SettingSteps) /\ Len(s) = 5
        /\ s[1] = "get" /\ s[2] = "a" /\ s[3] = "commit" /\ s[4] = "apply"
        /\ s[5] = "reply"
    BY DEF SettingSteps
  <2>2. /\ r \in Seq(SettingSteps) /\ Len(r) = 5
        /\ r[1] = "get" /\ r[2] = "a" /\ r[3] = "commit" /\ r[4] = "apply"
        /\ r[5] = "reply"
    BY DEF SettingSteps
  <2> HIDE DEF s, r
  <2>3. s = r
    BY <2>1, <2>2, SeqEqual
  <2> QED
    BY <2>3 DEF s, r
<1>10. (((<<"get">> \o <<"b", "commit">>) \o << >>) \o <<"reply">>) \o << >>
       = <<"get", "b", "commit", "reply">>
  <2> DEFINE s == (((<<"get">> \o <<"b", "commit">>) \o << >>) \o <<"reply">>) \o << >>
             r == <<"get", "b", "commit", "reply">>
  <2>1. /\ s \in Seq(SettingSteps) /\ Len(s) = 4
        /\ s[1] = "get" /\ s[2] = "b" /\ s[3] = "commit" /\ s[4] = "reply"
    BY DEF SettingSteps
  <2>2. /\ r \in Seq(SettingSteps) /\ Len(r) = 4
        /\ r[1] = "get" /\ r[2] = "b" /\ r[3] = "commit" /\ r[4] = "reply"
    BY DEF SettingSteps
  <2> HIDE DEF s, r
  <2>3. s = r
    BY <2>1, <2>2, SeqEqual
  <2> QED
    BY <2>3 DEF s, r
<1> QED
  BY <1>1, <1>2, <1>3, <1>4, <1>5, <1>6, <1>7, <1>8, <1>9, <1>10

\* The programs of the handlers, for each setting.
OwnHandlersOf(s) == Set!WebHandlers(s) \cup Set!RemoteHandlers(s)

LEMMA HandlersAre ==
  ASSUME NEW s \in Set!SettingNames, NEW h \in OwnHandlersOf(s)
  PROVE  HandlerKnown(h, s)
<1> DEFINE made(sets, cache, partial, apply, obeys) ==
      h = [store |-> [sets |-> sets, cache |-> cache], partial |-> partial, apply |-> apply,
           obeys |-> obeys]
<1> USE DEF OwnHandlersOf, Set!WebHandlers, Set!RemoteHandlers, Set!Handler
<1>1. ASSUME s = "wifi"  PROVE HandlerKnown(h, s)
  <2>1. made(<<"a", "b", "commit">>, "none", FALSE, "restart", TRUE)
    BY <1>1 DEF Set!WifiPost, Set!OnboardingWifi, Set!WifiStore
  <2>2. Set!Steps(h) = <<"a", "b", "commit", "reply", "restart">>
    BY <2>1, ProgramsAre DEF Set!Steps, Set!Saving
  <2>3. Stored(h, s) = {"a", "b"}
    BY <1>1, <2>1 DEF Stored, KeysOf
  <2>4. Does(h, s, {"wifi"}, FALSE, {"a", "b"}, "restart",
            <<"a", "b", "commit", "reply", "restart">>)
    BY <1>1, <2>1, <2>2, <2>3 DEF Does
  <2>5. h.store.cache = "none" /\ h.obeys = TRUE
    BY <2>1
  <2>6. ProgramKnown(h, s)
    BY <2>4 DEF ProgramKnown
  <2> QED
    BY <1>1, <2>5, <2>6 DEF HandlerKnown
<1>2. ASSUME s = "name"  PROVE HandlerKnown(h, s)
  <2>1. made(<<"a", "commit">>, "none", FALSE, "boot", TRUE)
    BY <1>2 DEF Set!NamePost, Set!NameStore
  <2>2. Set!Steps(h) = <<"a", "commit", "reply">>
    BY <2>1, ProgramsAre DEF Set!Steps, Set!Saving
  <2>3. Stored(h, s) = {"a"}
    BY <1>2, <2>1 DEF Stored, KeysOf
  <2>4. Does(h, s, {"name"}, FALSE, {"a"}, "boot",
            <<"a", "commit", "reply">>)
    BY <1>2, <2>1, <2>2, <2>3 DEF Does
  <2>5. h.store.cache = "none" /\ h.obeys = TRUE
    BY <2>1
  <2>6. ProgramKnown(h, s)
    BY <2>4 DEF ProgramKnown
  <2> QED
    BY <1>2, <2>5, <2>6 DEF HandlerKnown
<1>3. ASSUME s = "gain"  PROVE HandlerKnown(h, s)
  <2>1. \/ made(<<"a", "commit">>, "first", FALSE, "ram", TRUE)
        \/ made(<<"a", "commit">>, "first", TRUE, "ram", TRUE)
    BY <1>3 DEF Set!GainPost, Set!VolumePost, Set!HaVolume, Set!GainStore
  <2>2. Stored(h, s) = {"a"} /\ h.store.cache = "first" /\ h.obeys = TRUE
    BY <1>3, <2>1 DEF Stored, KeysOf
  <2>3. CASE made(<<"a", "commit">>, "first", FALSE, "ram", TRUE)
    <3>1. Set!Steps(h) = <<"same", "ram", "a", "commit", "reply">>
      BY <2>3, ProgramsAre DEF Set!Steps, Set!Saving
    <3>2. Does(h, s, {"gain"}, FALSE, {"a"}, "ram", <<"same", "ram", "a", "commit", "reply">>)
      BY <1>3, <2>2, <2>3, <3>1 DEF Does
    <3>3. ProgramKnown(h, s)
      BY <3>2 DEF ProgramKnown
    <3> QED
      BY <1>3, <2>2, <3>3 DEF HandlerKnown
  <2>4. CASE made(<<"a", "commit">>, "first", TRUE, "ram", TRUE)
    <3>1. Set!Steps(h) = <<"get", "same", "ram", "a", "commit", "reply">>
      BY <2>4, ProgramsAre DEF Set!Steps, Set!Saving
    <3>2. Does(h, s, {"gain"}, TRUE, {"a"}, "ram",
               <<"get", "same", "ram", "a", "commit", "reply">>)
      BY <1>3, <2>2, <2>4, <3>1 DEF Does
    <3>3. ProgramKnown(h, s)
      BY <3>2 DEF ProgramKnown
    <3> QED
      BY <1>3, <2>2, <3>3 DEF HandlerKnown
  <2> QED
    BY <2>1, <2>3, <2>4
<1>4. ASSUME s \in {"matrix", "argb", "mqtt"}  PROVE HandlerKnown(h, s)
  <2>1. made(<<"a", "b", "commit">>, "none", TRUE, "reread", TRUE)
    BY <1>4 DEF Set!MatrixPost, Set!HaMatrix, Set!MatrixStore, Set!ArgbPost, Set!PogArgb,
       Set!ArgbStore, Set!MqttPost, Set!MqttStore
  <2>2. Set!Steps(h) = <<"get", "a", "b", "commit", "apply", "reply">>
    BY <2>1, ProgramsAre DEF Set!Steps, Set!Saving
  <2>3. Stored(h, s) = {"a", "b"}
    BY <1>4, <2>1 DEF Stored, KeysOf
  <2>4. Does(h, s, {"matrix", "argb", "mqtt"}, TRUE, {"a", "b"}, "reread",
            <<"get", "a", "b", "commit", "apply", "reply">>)
    BY <1>4, <2>1, <2>2, <2>3 DEF Does
  <2>5. h.store.cache = "none" /\ h.obeys = TRUE
    BY <2>1
  <2>6. ProgramKnown(h, s)
    BY <2>4 DEF ProgramKnown
  <2> QED
    BY <1>4, <2>5, <2>6 DEF HandlerKnown
<1>5. ASSUME s = "tone"  PROVE HandlerKnown(h, s)
  <2>1. \/ made(<<"a", "b", "commit">>, "none", TRUE, "local", TRUE)
        \/ made(<<"a", "b", "commit">>, "none", TRUE, "local", FALSE)
    BY <1>5 DEF Set!TonePost, Set!PogTone, Set!HaTone, Set!ToneStore
  <2>2. Set!Steps(h) = <<"get", "a", "b", "commit", "local", "reply">>
    <3>1. /\ h.partial = TRUE /\ h.apply = "local" /\ h.store.cache = "none"
          /\ h.store.sets = <<"a", "b", "commit">>
      BY <2>1
    <3> QED
      BY <3>1, ProgramsAre DEF Set!Steps, Set!Saving
  <2>3. Stored(h, s) = {"a", "b"}
    BY <1>5, <2>1 DEF Stored, KeysOf
  <2>4. Does(h, s, {"tone"}, TRUE, {"a", "b"}, "local",
            <<"get", "a", "b", "commit", "local", "reply">>)
    BY <1>5, <2>1, <2>2, <2>3 DEF Does
  <2>5. h.store.cache = "none" /\ (h.obeys = TRUE \/ h.obeys = FALSE)
    BY <2>1
  <2>6. ProgramKnown(h, s)
    BY <2>4 DEF ProgramKnown
  <2> QED
    BY <1>5, <2>5, <2>6 DEF HandlerKnown
<1>6. ASSUME s = "buttons"  PROVE HandlerKnown(h, s)
  <2>1. made(<<"a", "b", "commit">>, "none", TRUE, "boot", TRUE)
    BY <1>6 DEF Set!ButtonsPost, Set!ButtonsStore
  <2>2. Set!Steps(h) = <<"get", "a", "b", "commit", "reply">>
    BY <2>1, ProgramsAre DEF Set!Steps, Set!Saving
  <2>3. Stored(h, s) = {"a", "b"}
    BY <1>6, <2>1 DEF Stored, KeysOf
  <2>4. Does(h, s, {"buttons"}, TRUE, {"a", "b"}, "boot",
            <<"get", "a", "b", "commit", "reply">>)
    BY <1>6, <2>1, <2>2, <2>3 DEF Does
  <2>5. h.store.cache = "none" /\ h.obeys = TRUE
    BY <2>1
  <2>6. ProgramKnown(h, s)
    BY <2>4 DEF ProgramKnown
  <2> QED
    BY <1>6, <2>5, <2>6 DEF HandlerKnown
<1>7. ASSUME s = "protection"  PROVE HandlerKnown(h, s)
  <2>1. h \in {Set!ProtectionPost, Set!PogStandby, Set!PogChannel}
    BY <1>7
  <2>2. CASE h = Set!ProtectionPost
    <3>1. made(<<"a", "commit">> \o <<"b", "commit">>, "none", TRUE, "local", TRUE)
      BY <2>2 DEF Set!ProtectionPost, Set!ProtectionStore, Set!ChannelStore
    <3>2. Set!Steps(h) = <<"get", "a", "commit", "b", "commit", "local", "reply">>
      BY <3>1, ProgramsAre DEF Set!Steps, Set!Saving
    <3>3. Stored(h, s) = {"a", "b"}
      <4>1. h.store.sets[1] = "a" /\ h.store.sets[3] = "b" /\ DOMAIN h.store.sets = 1 .. 4
        BY <3>1
      <4> QED
        BY <1>7, <4>1 DEF Stored, KeysOf
    <3>4. Does(h, s, {"protection"}, TRUE, {"a", "b"}, "local",
              <<"get", "a", "commit", "b", "commit", "local", "reply">>)
      BY <1>7, <3>1, <3>2, <3>3 DEF Does
    <3>5. h.store.cache = "none" /\ h.obeys = TRUE
      BY <3>1
    <3>6. ProgramKnown(h, s)
      BY <3>4 DEF ProgramKnown
    <3> QED
      BY <1>7, <3>5, <3>6 DEF HandlerKnown
  <2>3. CASE h = Set!PogStandby
    <3>1. made(<<"a", "commit">>, "none", TRUE, "reread", TRUE)
      BY <2>3 DEF Set!PogStandby, Set!ProtectionStore
    <3>2. Set!Steps(h) = <<"get", "a", "commit", "apply", "reply">>
      BY <3>1, ProgramsAre DEF Set!Steps, Set!Saving
    <3>3. Stored(h, s) = {"a"}
      BY <1>7, <3>1 DEF Stored, KeysOf
    <3>4. Does(h, s, {"protection"}, TRUE, {"a"}, "reread",
              <<"get", "a", "commit", "apply", "reply">>)
      BY <1>7, <3>1, <3>2, <3>3 DEF Does
    <3>5. h.store.cache = "none" /\ h.obeys = TRUE
      BY <3>1
    <3>6. ProgramKnown(h, s)
      BY <3>4 DEF ProgramKnown
    <3> QED
      BY <1>7, <3>5, <3>6 DEF HandlerKnown
  <2>4. CASE h = Set!PogChannel
    <3>1. made(<<"b", "commit">>, "none", TRUE, "never", TRUE)
      BY <2>4 DEF Set!PogChannel, Set!ChannelStore
    <3>2. Set!Steps(h) = <<"get", "b", "commit", "reply">>
      BY <3>1, ProgramsAre DEF Set!Steps, Set!Saving
    <3>3. Stored(h, s) = {"b"}
      BY <1>7, <3>1 DEF Stored, KeysOf
    <3>4. Does(h, s, {"protection"}, TRUE, {"b"}, "never",
              <<"get", "b", "commit", "reply">>)
      BY <1>7, <3>1, <3>2, <3>3 DEF Does
    <3>5. h.store.cache = "none" /\ h.obeys = TRUE
      BY <3>1
    <3>6. ProgramKnown(h, s)
      BY <3>4 DEF ProgramKnown
    <3> QED
      BY <1>7, <3>5, <3>6 DEF HandlerKnown
  <2> QED
    BY <2>1, <2>2, <2>3, <2>4
<1> QED
  BY <1>1, <1>2, <1>3, <1>4, <1>5, <1>6, <1>7 DEF Set!SettingNames

\* The programs leave nothing out, and so do the answers to a failed write.
LEMMA ProgramsOrderly ==
  ASSUME NEW h, NEW s, ProgramKnown(h, s)
  PROVE  /\ Set!Steps(h) \in Seq(SettingSteps) /\ Set!Steps(h) # << >>
         /\ Orderly(Set!Steps(h), h, s)
         /\ Left(Set!Steps(h), "commit")
         /\ \A k \in Stored(h, s) : Left(Set!Steps(h), k)
         /\ h.partial => Left(Set!Steps(h), "get")
         /\ s = "gain" => Left(Set!Steps(h), "ram")
<1> DEFINE p == Set!Steps(h)
<1> HIDE DEF p
<1>1. ASSUME Does(h, s, {"wifi"}, FALSE, {"a", "b"}, "restart",
                 <<"a", "b", "commit", "reply", "restart">>)
      PROVE  /\ p \in Seq(SettingSteps) /\ p # << >> /\ Orderly(p, h, s) /\ Left(p, "commit")
             /\ \A k \in Stored(h, s) : Left(p, k)
             /\ h.partial => Left(p, "get")
             /\ s = "gain" => Left(p, "ram")
  <2>1. p = <<"a", "b", "commit", "reply", "restart">>
    BY <1>1 DEF Does, p
  <2>2. /\ p \in Seq(SettingSteps) /\ p # << >> /\ Len(p) = 5
        /\ p[1] = "a" /\ p[2] = "b" /\ p[3] = "commit" /\ p[4] = "reply"
        /\ p[5] = "restart"
    BY <2>1 DEF SettingSteps
  <2> QED
    BY <1>1, <2>2 DEF Does, Orderly, InPlace, Later, Left, SettingSteps
<1>2. ASSUME Does(h, s, {"name"}, FALSE, {"a"}, "boot",
                 <<"a", "commit", "reply">>)
      PROVE  /\ p \in Seq(SettingSteps) /\ p # << >> /\ Orderly(p, h, s) /\ Left(p, "commit")
             /\ \A k \in Stored(h, s) : Left(p, k)
             /\ h.partial => Left(p, "get")
             /\ s = "gain" => Left(p, "ram")
  <2>1. p = <<"a", "commit", "reply">>
    BY <1>2 DEF Does, p
  <2>2. /\ p \in Seq(SettingSteps) /\ p # << >> /\ Len(p) = 3
        /\ p[1] = "a" /\ p[2] = "commit" /\ p[3] = "reply"
    BY <2>1 DEF SettingSteps
  <2> QED
    BY <1>2, <2>2 DEF Does, Orderly, InPlace, Later, Left, SettingSteps
<1>3. ASSUME Does(h, s, {"gain"}, FALSE, {"a"}, "ram",
                 <<"same", "ram", "a", "commit", "reply">>)
      PROVE  /\ p \in Seq(SettingSteps) /\ p # << >> /\ Orderly(p, h, s) /\ Left(p, "commit")
             /\ \A k \in Stored(h, s) : Left(p, k)
             /\ h.partial => Left(p, "get")
             /\ s = "gain" => Left(p, "ram")
  <2>1. p = <<"same", "ram", "a", "commit", "reply">>
    BY <1>3 DEF Does, p
  <2>2. /\ p \in Seq(SettingSteps) /\ p # << >> /\ Len(p) = 5
        /\ p[1] = "same" /\ p[2] = "ram" /\ p[3] = "a" /\ p[4] = "commit"
        /\ p[5] = "reply"
    BY <2>1 DEF SettingSteps
  <2> QED
    BY <1>3, <2>2 DEF Does, Orderly, InPlace, Later, Left, SettingSteps
<1>4. ASSUME Does(h, s, {"gain"}, TRUE, {"a"}, "ram",
                 <<"get", "same", "ram", "a", "commit", "reply">>)
      PROVE  /\ p \in Seq(SettingSteps) /\ p # << >> /\ Orderly(p, h, s) /\ Left(p, "commit")
             /\ \A k \in Stored(h, s) : Left(p, k)
             /\ h.partial => Left(p, "get")
             /\ s = "gain" => Left(p, "ram")
  <2>1. p = <<"get", "same", "ram", "a", "commit", "reply">>
    BY <1>4 DEF Does, p
  <2>2. /\ p \in Seq(SettingSteps) /\ p # << >> /\ Len(p) = 6
        /\ p[1] = "get" /\ p[2] = "same" /\ p[3] = "ram" /\ p[4] = "a"
        /\ p[5] = "commit" /\ p[6] = "reply"
    BY <2>1 DEF SettingSteps
  <2> QED
    BY <1>4, <2>2 DEF Does, Orderly, InPlace, Later, Left, SettingSteps
<1>5. ASSUME Does(h, s, {"matrix", "argb", "mqtt"}, TRUE, {"a", "b"}, "reread",
                 <<"get", "a", "b", "commit", "apply", "reply">>)
      PROVE  /\ p \in Seq(SettingSteps) /\ p # << >> /\ Orderly(p, h, s) /\ Left(p, "commit")
             /\ \A k \in Stored(h, s) : Left(p, k)
             /\ h.partial => Left(p, "get")
             /\ s = "gain" => Left(p, "ram")
  <2>1. p = <<"get", "a", "b", "commit", "apply", "reply">>
    BY <1>5 DEF Does, p
  <2>2. /\ p \in Seq(SettingSteps) /\ p # << >> /\ Len(p) = 6
        /\ p[1] = "get" /\ p[2] = "a" /\ p[3] = "b" /\ p[4] = "commit"
        /\ p[5] = "apply" /\ p[6] = "reply"
    BY <2>1 DEF SettingSteps
  <2> QED
    BY <1>5, <2>2 DEF Does, Orderly, InPlace, Later, Left, SettingSteps
<1>6. ASSUME Does(h, s, {"tone"}, TRUE, {"a", "b"}, "local",
                 <<"get", "a", "b", "commit", "local", "reply">>)
      PROVE  /\ p \in Seq(SettingSteps) /\ p # << >> /\ Orderly(p, h, s) /\ Left(p, "commit")
             /\ \A k \in Stored(h, s) : Left(p, k)
             /\ h.partial => Left(p, "get")
             /\ s = "gain" => Left(p, "ram")
  <2>1. p = <<"get", "a", "b", "commit", "local", "reply">>
    BY <1>6 DEF Does, p
  <2>2. /\ p \in Seq(SettingSteps) /\ p # << >> /\ Len(p) = 6
        /\ p[1] = "get" /\ p[2] = "a" /\ p[3] = "b" /\ p[4] = "commit"
        /\ p[5] = "local" /\ p[6] = "reply"
    BY <2>1 DEF SettingSteps
  <2> QED
    BY <1>6, <2>2 DEF Does, Orderly, InPlace, Later, Left, SettingSteps
<1>7. ASSUME Does(h, s, {"buttons"}, TRUE, {"a", "b"}, "boot",
                 <<"get", "a", "b", "commit", "reply">>)
      PROVE  /\ p \in Seq(SettingSteps) /\ p # << >> /\ Orderly(p, h, s) /\ Left(p, "commit")
             /\ \A k \in Stored(h, s) : Left(p, k)
             /\ h.partial => Left(p, "get")
             /\ s = "gain" => Left(p, "ram")
  <2>1. p = <<"get", "a", "b", "commit", "reply">>
    BY <1>7 DEF Does, p
  <2>2. /\ p \in Seq(SettingSteps) /\ p # << >> /\ Len(p) = 5
        /\ p[1] = "get" /\ p[2] = "a" /\ p[3] = "b" /\ p[4] = "commit"
        /\ p[5] = "reply"
    BY <2>1 DEF SettingSteps
  <2> QED
    BY <1>7, <2>2 DEF Does, Orderly, InPlace, Later, Left, SettingSteps
<1>8. ASSUME Does(h, s, {"protection"}, TRUE, {"a", "b"}, "local",
                 <<"get", "a", "commit", "b", "commit", "local", "reply">>)
      PROVE  /\ p \in Seq(SettingSteps) /\ p # << >> /\ Orderly(p, h, s) /\ Left(p, "commit")
             /\ \A k \in Stored(h, s) : Left(p, k)
             /\ h.partial => Left(p, "get")
             /\ s = "gain" => Left(p, "ram")
  <2>1. p = <<"get", "a", "commit", "b", "commit", "local", "reply">>
    BY <1>8 DEF Does, p
  <2>2. /\ p \in Seq(SettingSteps) /\ p # << >> /\ Len(p) = 7
        /\ p[1] = "get" /\ p[2] = "a" /\ p[3] = "commit" /\ p[4] = "b"
        /\ p[5] = "commit" /\ p[6] = "local" /\ p[7] = "reply"
    BY <2>1 DEF SettingSteps
  <2> QED
    BY <1>8, <2>2 DEF Does, Orderly, InPlace, Later, Left, SettingSteps
<1>9. ASSUME Does(h, s, {"protection"}, TRUE, {"a"}, "reread",
                 <<"get", "a", "commit", "apply", "reply">>)
      PROVE  /\ p \in Seq(SettingSteps) /\ p # << >> /\ Orderly(p, h, s) /\ Left(p, "commit")
             /\ \A k \in Stored(h, s) : Left(p, k)
             /\ h.partial => Left(p, "get")
             /\ s = "gain" => Left(p, "ram")
  <2>1. p = <<"get", "a", "commit", "apply", "reply">>
    BY <1>9 DEF Does, p
  <2>2. /\ p \in Seq(SettingSteps) /\ p # << >> /\ Len(p) = 5
        /\ p[1] = "get" /\ p[2] = "a" /\ p[3] = "commit" /\ p[4] = "apply"
        /\ p[5] = "reply"
    BY <2>1 DEF SettingSteps
  <2> QED
    BY <1>9, <2>2 DEF Does, Orderly, InPlace, Later, Left, SettingSteps
<1>10. ASSUME Does(h, s, {"protection"}, TRUE, {"b"}, "never",
                 <<"get", "b", "commit", "reply">>)
      PROVE  /\ p \in Seq(SettingSteps) /\ p # << >> /\ Orderly(p, h, s) /\ Left(p, "commit")
             /\ \A k \in Stored(h, s) : Left(p, k)
             /\ h.partial => Left(p, "get")
             /\ s = "gain" => Left(p, "ram")
  <2>1. p = <<"get", "b", "commit", "reply">>
    BY <1>10 DEF Does, p
  <2>2. /\ p \in Seq(SettingSteps) /\ p # << >> /\ Len(p) = 4
        /\ p[1] = "get" /\ p[2] = "b" /\ p[3] = "commit" /\ p[4] = "reply"
    BY <2>1 DEF SettingSteps
  <2> QED
    BY <1>10, <2>2 DEF Does, Orderly, InPlace, Later, Left, SettingSteps
<1> QED
  BY <1>1, <1>2, <1>3, <1>4, <1>5, <1>6, <1>7, <1>8, <1>9, <1>10 DEF ProgramKnown, p

LEMMA FailuresOrderly ==
  ASSUME NEW h, NEW s
  PROVE  /\ <<"reply">> \in Seq(SettingSteps) /\ Orderly(<<"reply">>, h, s)
         /\ \A x : Left(<<"reply">>, x) <=> x = "reply"
         /\ s \in {"tone", "protection"} =>
              /\ <<"local", "reply">> \in Seq(SettingSteps) /\ Orderly(<<"local", "reply">>, h, s)
              /\ \A x : Left(<<"local", "reply">>, x) <=> x \in {"local", "reply"}
<1> DEFINE p == <<"reply">>
           q == <<"local", "reply">>
<1>1. /\ p \in Seq(SettingSteps) /\ Len(p) = 1 /\ p[1] = "reply"
      /\ q \in Seq(SettingSteps) /\ Len(q) = 2 /\ q[1] = "local" /\ q[2] = "reply"
  BY DEF SettingSteps
<1> HIDE DEF p, q
<1>2. Orderly(p, h, s) /\ \A x : Left(p, x) <=> x = "reply"
  BY <1>1 DEF Orderly, InPlace, Later, Left, SettingSteps
<1>3. ASSUME s \in {"tone", "protection"}
      PROVE  Orderly(q, h, s) /\ \A x : Left(q, x) <=> x \in {"local", "reply"}
  BY <1>1, <1>3 DEF Orderly, InPlace, Later, Left, SettingSteps
<1> QED
  BY <1>1, <1>2, <1>3 DEF p, q

-----------------------------------------------------------------------------
(* Steps of the settings.                                                  *)

LEMMA HandlerFacts ==
  ASSUME NEW h, NEW s, HandlerKnown(h, s)
  PROVE  /\ Stored(h, s) \subseteq KeysOf(s) /\ Stored(h, s) \subseteq {"a", "b"}
         /\ Stored(h, s) # {} /\ (s = "gain" => Stored(h, s) = {"a"})
         /\ h.apply \in {"local", "reread", "restart", "never", "boot", "ram"}
         /\ h.apply = "boot" => s \in {"name", "buttons"}
         /\ h.apply = "ram" => s = "gain"
         /\ h.obeys = TRUE \/ (h.obeys = FALSE /\ s = "tone")
<1>1. Stored(h, s) \subseteq KeysOf(s) /\ Stored(h, s) \subseteq {"a", "b"}
  BY DEF Stored, KeysOf
<1> DEFINE kind(settings, keys, apply) ==
      s \in settings /\ Stored(h, s) = keys /\ h.apply = apply
<1>2. \/ kind({"wifi"}, {"a", "b"}, "restart") \/ kind({"name"}, {"a"}, "boot")
      \/ kind({"gain"}, {"a"}, "ram") \/ kind({"matrix", "argb", "mqtt"}, {"a", "b"}, "reread")
      \/ kind({"tone"}, {"a", "b"}, "local") \/ kind({"buttons"}, {"a", "b"}, "boot")
      \/ kind({"protection"}, {"a", "b"}, "local") \/ kind({"protection"}, {"a"}, "reread")
      \/ kind({"protection"}, {"b"}, "never")
  BY DEF HandlerKnown, ProgramKnown, Does
<1> QED
  BY <1>1, <1>2 DEF HandlerKnown

LEMMA StoredIs == \A h : Set!StoreKeys(h.store) = Stored(h, setting)
BY DEF Set!StoreKeys, Set!Keys, Stored, KeysOf

\* One task moves.
LEMMA TaskMoves ==
  ASSUME SettingFields, Handlers, OneBusy,
         NEW t \in Set!Writers, Busy(writer[t]) \/ setHist'.overlap
           \/ \A u \in Set!Writers : ~Busy(writer[u]),
         NEW w, Task(w, setting), InHandler(w, setting, setHist'.failed),
         writer' = [writer EXCEPT ![t] = w], setting' = setting,
         DOMAIN flash' = {"a", "b"}, DOMAIN durable' = {"a", "b"}, DOMAIN live' = {"a", "b"},
         DOMAIN asked' = {"a", "b"},
         setHist' = [overlap |-> setHist'.overlap, failed |-> setHist'.failed,
                     unapplied |-> setHist'.unapplied, requests |-> setHist'.requests,
                     faults |-> setHist'.faults, cuts |-> setHist'.cuts],
         setHist.overlap => setHist'.overlap, setHist.failed => setHist'.failed
  PROVE  /\ SettingFields' /\ Handlers' /\ OneBusy'
         /\ writer'[t] = w /\ \A u \in Set!Writers \ {t} : writer'[u] = writer[u]
<1>1. /\ writer'[t] = w /\ \A u \in Set!Writers \ {t} : writer'[u] = writer[u]
      /\ writer' = [u \in Set!Writers |-> writer'[u]]
  BY DEF SettingFields
<1>2. SettingFields'
  BY <1>1 DEF SettingFields
<1>3. Handlers'
  BY <1>1 DEF Handlers, InHandler
<1>4. OneBusy'
  BY <1>1 DEF OneBusy
<1> QED
  BY <1>1, <1>2, <1>3, <1>4

\* ... to the next step of its handler.
OnNext(w) == [todo |-> Tail(w.todo), new |-> w.new, chg |-> w.chg, err |-> w.err,
             handler |-> w.handler]

LEMMA NextIs ==
  ASSUME NEW w, w = [todo |-> w.todo, new |-> w.new, chg |-> w.chg, err |-> w.err,
                     handler |-> w.handler]
  PROVE  [w EXCEPT !.todo = Tail(@)] = OnNext(w)
<1>1. PICK v : v = [w EXCEPT !.todo = Tail(@)]
  OBVIOUS
<1>2. v = OnNext(w)
  BY <1>1 DEF OnNext
<1> QED
  BY <1>1, <1>2

LEMMA TaskAdvances ==
  ASSUME SettingFields, Handlers, OneBusy, NEW t \in Set!Writers, Busy(writer[t]),
         Set!Advance(t), setting' = setting,
         DOMAIN flash' = {"a", "b"}, DOMAIN durable' = {"a", "b"}, DOMAIN live' = {"a", "b"},
         DOMAIN asked' = {"a", "b"},
         setHist' = [overlap |-> setHist.overlap, failed |-> setHist.failed,
                     unapplied |-> setHist'.unapplied, requests |-> setHist.requests,
                     faults |-> setHist.faults, cuts |-> setHist.cuts]
  PROVE  /\ SettingFields' /\ Handlers' /\ OneBusy'
         /\ writer'[t] = OnNext(writer[t])
         /\ \A u \in Set!Writers \ {t} : writer'[u] = writer[u]
<1>1. Task(writer[t], setting) /\ InHandler(writer[t], setting, setHist.failed)
  BY DEF SettingFields, Handlers
<1>2. Tail(writer[t].todo) \in Seq(SettingSteps)
      /\ Orderly(Tail(writer[t].todo), writer[t].handler, setting)
  BY <1>1, OrderlyTail, LeftIs DEF Task, Busy
<1>3. Task(OnNext(writer[t]), setting)
  BY <1>1, <1>2 DEF Task, OnNext
<1>4. InHandler(OnNext(writer[t]), setting, setHist.failed)
  BY <1>1 DEF InHandler, OnNext, Busy
<1>5. [writer[t] EXCEPT !.todo = Tail(@)] = OnNext(writer[t])
  BY <1>1, NextIs DEF Task
<1>6. writer' = [writer EXCEPT ![t] = OnNext(writer[t])]
  BY <1>5 DEF Set!Advance, SettingFields
<1>7. setHist'.overlap = setHist.overlap /\ setHist'.failed = setHist.failed
      /\ setHist'.requests = setHist.requests /\ setHist'.faults = setHist.faults
      /\ setHist'.cuts = setHist.cuts
  OBVIOUS
<1> QED
  BY <1>3, <1>4, <1>6, <1>7, TaskMoves

\* What is known of a task in a handler: its next step and those it leaves.
Ahead(w, s) ==
  /\ \A x : Left(w.todo, x) <=> Head(w.todo) = x \/ Left(Tail(w.todo), x)
  /\ ~Left(Tail(w.todo), "get")
  /\ Head(w.todo) = "get" =>
       (\A k \in Stored(w.handler, s) : Left(Tail(w.todo), k)) /\ Left(Tail(w.todo), "commit")
  /\ Head(w.todo) = "same" => Left(Tail(w.todo), "ram")
  /\ Head(w.todo) \notin {"get", "same"} => ~Left(Tail(w.todo), "ram")
  /\ Head(w.todo) \in {"a", "b"} =>
       /\ Head(w.todo) \in Stored(w.handler, s) /\ Left(Tail(w.todo), "commit")
       /\ w.handler.apply \in {"local", "reread", "restart"} =>
            \/ Left(Tail(w.todo), "local") \/ Left(Tail(w.todo), "apply")
            \/ Left(Tail(w.todo), "restart")
  /\ Head(w.todo) \in {"local", "apply", "reply", "restart"} =>
       \A x \in {"a", "b", "commit", "local", "apply"} : ~Left(Tail(w.todo), x)
  /\ Head(w.todo) \in {"reply", "restart"} => ~Left(Tail(w.todo), "reply")
  /\ Head(w.todo) \notin {"reply", "restart"} => Left(Tail(w.todo), "reply")
  /\ Head(w.todo) = "local" => s \in {"tone", "protection"}
  /\ Head(w.todo) \in {"same", "ram"} => s = "gain"
  /\ Head(w.todo) = "apply" => s # "gain"
  /\ ~Left(Tail(w.todo), "commit") => ~Left(Tail(w.todo), "a") /\ ~Left(Tail(w.todo), "b")
  /\ \A x : Left(Tail(w.todo), x) => Tail(w.todo) # << >>
  /\ Head(w.todo) \in SettingSteps

\* ... and its handler.
Own(w, s) ==
  /\ Stored(w.handler, s) \subseteq KeysOf(s) /\ Stored(w.handler, s) \subseteq {"a", "b"}
  /\ Stored(w.handler, s) # {} /\ (s = "gain" => Stored(w.handler, s) = {"a"})
  /\ w.handler.apply \in {"local", "reread", "restart", "never", "boot", "ram"}
  /\ w.handler.apply = "boot" => s \in {"name", "buttons"}
  /\ w.handler.apply = "ram" => s = "gain"
  /\ w.handler.obeys = TRUE \/ (w.handler.obeys = FALSE /\ s = "tone")
  /\ w.handler.store.cache = IF s = "gain" THEN "first" ELSE "none"
  /\ w.chg # {} /\ w.chg \subseteq Stored(w.handler, s)
  /\ w.err = TRUE \/ w.err = FALSE

LEMMA AheadIs ==
  ASSUME SettingFields, Handlers, NEW t \in Set!Writers, Busy(writer[t])
  PROVE  Ahead(writer[t], setting) /\ Own(writer[t], setting)
<1> DEFINE p == writer[t].todo
           h == writer[t].handler
<1>1. p \in Seq(SettingSteps) /\ p # << >> /\ Orderly(p, h, setting)
  BY DEF SettingFields, Task, Busy
<1>2. /\ HandlerKnown(h, setting) /\ writer[t].chg # {}
      /\ writer[t].chg \subseteq Stored(h, setting) /\ writer[t].err \in BOOLEAN
  BY DEF Handlers, InHandler, Busy
<1>3. Own(writer[t], setting)
  BY <1>2, HandlerFacts DEF Own, HandlerKnown
<1>4. Head(p) \in SettingSteps
  BY <1>1
<1>5. \A x : Left(Tail(p), x) => Tail(p) # << >>
  BY NoneLeft
<1> HIDE DEF p, h
<1>6. \A x : Left(p, x) <=> Head(p) = x \/ Left(Tail(p), x)
  BY <1>1, LeftIs
<1>7. Stored(h, setting) # {}
  BY <1>2, HandlerFacts
<1>8. Ahead(writer[t], setting)
  BY <1>1, <1>4, <1>5, <1>6, <1>7, FirstStep DEF Ahead, p, h
<1> QED
  BY <1>3, <1>8

LEMMA OnlyBusy ==
  ASSUME OneBusy, Calm(setting, setHist), NEW t \in Set!Writers, Busy(writer[t])
  PROVE  \A u \in Set!Writers \ {t} : ~Busy(writer[u])
BY DEF OneBusy, Calm

\* The next step of a handler.
LEMMA HandlerAdvances ==
  ASSUME SettingsInv, NEW t \in Set!Writers, Busy(writer[t]), Set!Advance(t), setting' = setting,
         DOMAIN flash' = {"a", "b"}, DOMAIN durable' = {"a", "b"}, DOMAIN live' = {"a", "b"},
         DOMAIN asked' = {"a", "b"},
         setHist' = setHist \/ setHist' = [setHist EXCEPT !.unapplied = TRUE]
  PROVE  /\ Ahead(writer[t], setting) /\ Own(writer[t], setting)
         /\ SettingFields' /\ Handlers' /\ OneBusy'
         /\ writer'[t].todo = Tail(writer[t].todo) /\ writer'[t].new = writer[t].new
         /\ writer'[t].chg = writer[t].chg /\ writer'[t].err = writer[t].err
         /\ writer'[t].handler = writer[t].handler
         /\ \A u \in Set!Writers \ {t} : writer'[u] = writer[u]
<1>1. SettingFields /\ Handlers /\ OneBusy
  BY DEF SettingsInv
<1>2. Ahead(writer[t], setting) /\ Own(writer[t], setting)
  BY <1>1, AheadIs
<1>3. setHist' = [overlap |-> setHist.overlap, failed |-> setHist.failed,
                  unapplied |-> setHist'.unapplied, requests |-> setHist.requests,
                  faults |-> setHist.faults, cuts |-> setHist.cuts]
  BY <1>1 DEF SettingFields
<1>4. /\ SettingFields' /\ Handlers' /\ OneBusy' /\ writer'[t] = OnNext(writer[t])
      /\ \A u \in Set!Writers \ {t} : writer'[u] = writer[u]
  BY <1>1, <1>3, TaskAdvances
<1> QED
  BY <1>2, <1>4 DEF OnNext

\* nvs_set_*: what is written is to be committed and made known.
LEMMA SettingsWrite ==
  ASSUME SettingsInv, NEW t \in Set!Writers, NEW k \in {"a", "b"}, Set!At(t, k), Set!Advance(t),
         flash' = [flash EXCEPT ![k] = writer[t].new[k]],
         UNCHANGED <<durable, setting, live, asked, setHist>>
  PROVE  SettingsInv'
<1> DEFINE w == writer[t]
<1>1. Busy(writer[t]) /\ Head(writer[t].todo) = k
  BY DEF Set!At, Busy
<1>2. SettingFields /\ OneBusy
  BY DEF SettingsInv
<1>3. DOMAIN flash' = {"a", "b"} /\ DOMAIN durable' = {"a", "b"} /\ DOMAIN live' = {"a", "b"}
      /\ DOMAIN asked' = {"a", "b"} /\ setHist' = setHist
      /\ flash'[k] = w.new[k] /\ \A j \in {"a", "b"} \ {k} : flash'[j] = flash[j]
  BY <1>2 DEF SettingFields
<1>4. /\ Ahead(writer[t], setting) /\ Own(writer[t], setting)
      /\ SettingFields' /\ Handlers' /\ OneBusy'
      /\ writer'[t].todo = Tail(writer[t].todo) /\ writer'[t].new = writer[t].new
      /\ writer'[t].chg = writer[t].chg /\ writer'[t].err = writer[t].err
      /\ writer'[t].handler = writer[t].handler
      /\ \A u \in Set!Writers \ {t} : writer'[u] = writer[u]
  BY <1>1, <1>3, HandlerAdvances
<1>5. \A u \in Set!Writers \ {t} : writer'[u] = writer[u]
  BY <1>4
<1>6. /\ writer'[t].todo = Tail(w.todo) /\ writer'[t].new = w.new /\ writer'[t].chg = w.chg
      /\ writer'[t].err = w.err /\ writer'[t].handler = w.handler
  BY <1>4
<1>7. Ahead(w, setting) /\ Own(w, setting)
  BY <1>4
<1> HIDE DEF w
<1>8. /\ Head(w.todo) = k /\ Left(Tail(w.todo), "reply") /\ ~Left(Tail(w.todo), "ram")
      /\ ~Left(w.todo, "ram")
      /\ \A x \in {"local", "apply", "restart", "reply"} :
           Left(w.todo, x) => Left(Tail(w.todo), x)
  BY <1>1, <1>7 DEF Ahead, w
<1>9. Busy(writer'[t]) /\ Left(Tail(w.todo), "commit")
  BY <1>1, <1>4, <1>5 DEF Ahead, Busy, OnNext, w
<1>10. Saved'
  <2> SUFFICES ASSUME Calm(setting, setHist)
               PROVE  /\ \A u \in Set!Writers : Busy(writer'[u]) =>
                           Written(writer'[u], flash', durable, setting)
                      /\ \A j \in KeysOf(setting) :
                           Known(flash'[j], j, asked, writer') /\ Known(durable[j], j, asked, writer')
    BY <1>3 DEF Saved
  <2>1. \A u \in Set!Writers \ {t} : ~Busy(writer[u]) /\ ~Busy(writer'[u])
    BY <1>1, <1>2, <1>5, OnlyBusy
  <2>2. /\ Written(w, flash, durable, setting)
        /\ \A j \in KeysOf(setting) :
             Known(flash[j], j, asked, writer) /\ Known(durable[j], j, asked, writer)
    BY <1>1 DEF SettingsInv, Saved, w
  <2>3. ~Left(w.todo, "get")
    BY <1>8, <1>7 DEF Ahead
  <2>4. \A j \in Stored(w.handler, setting) \ w.chg : w.new[j] = flash[j]
    BY <2>2, <2>3 DEF Written
  <2>5. Written(writer'[t], flash', durable, setting)
    BY <1>3, <1>6, <1>8, <1>9, <1>7, <2>2, <2>4 DEF Written, Ahead, Own
  <2>6. \A j \in KeysOf(setting) : \A v :
          Known(v, j, asked, writer) => Known(v, j, asked, writer')
    BY <1>5, <1>6, <1>9, <2>1 DEF Known, w
  <2>7. Known(flash'[k], k, asked, writer')
    <3>1. CASE k \in w.chg
      BY <1>3, <1>6, <1>9, <3>1 DEF Known
    <3>2. CASE k \notin w.chg
      BY <1>3, <1>8, <1>7, <2>2, <2>4, <2>6, <3>2 DEF Ahead, Own
    <3> QED
      BY <3>1, <3>2
  <2>8. KeysOf(setting) \subseteq {"a", "b"}
    BY DEF KeysOf
  <2> QED
    BY <1>3, <2>1, <2>2, <2>5, <2>6, <2>7, <2>8
<1>11. GainKept'
  <2>1. setting = "gain" /\ Calm(setting, setHist) => live["a"] = w.new["a"]
        /\ \A u \in Set!Writers : Busy(writer[u]) /\ ~Left(writer[u].todo, "ram")
             => live["a"] = writer[u].new["a"]
    BY <1>1, <1>8 DEF SettingsInv, GainKept, w
  <2> QED
    BY <1>3, <1>5, <1>9, <1>8, <1>6, <2>1 DEF GainKept
<1>12. Applied'
  <2> SUFFICES ASSUME Followed(setting, setHist), NEW j \in {"a", "b"}, live[j] # flash'[j]
               PROVE  \E u \in Set!Writers : SeenTo(writer'[u], j, setting)
    BY <1>3 DEF Applied
  <2>1. CASE j = k
    <3>1. /\ k \in Stored(w.handler, setting)
          /\ w.handler.apply \in {"local", "reread", "restart"} =>
               \/ Left(Tail(w.todo), "local") \/ Left(Tail(w.todo), "apply")
               \/ Left(Tail(w.todo), "restart")
          /\ w.handler.apply \in {"local", "reread", "restart", "never"}
      BY <1>8, <1>7 DEF Ahead, Own, Followed
    <3>2. SeenTo(writer'[t], k, setting)
      BY <1>8, <1>6, <3>1 DEF SeenTo
    <3> QED
      BY <2>1, <3>2
  <2>2. CASE j # k
    <3>1. PICK u \in Set!Writers : SeenTo(writer[u], j, setting)
      BY <1>3, <2>2 DEF SettingsInv, Applied
    <3>2. CASE u = t
      <4>1. SeenTo(writer'[t], j, setting)
        BY <1>8, <1>6, <3>1, <3>2 DEF SeenTo, w
      <4> QED
        BY <4>1
    <3> QED
      BY <1>5, <3>1, <3>2
  <2> QED
    BY <2>1, <2>2
<1> QED
  BY <1>4, <1>10, <1>11, <1>12 DEF SettingsInv

\* A step that neither writes nor answers.
LEMMA SavedStays ==
  ASSUME SettingsInv, NEW t \in Set!Writers, Busy(writer[t]),
         Head(writer[t].todo) \in {"local", "apply", "ram"}, Set!Advance(t),
         DOMAIN live' = {"a", "b"}, UNCHANGED <<setting, flash, durable, asked, setHist>>
  PROVE  /\ SettingFields' /\ Handlers' /\ OneBusy' /\ Saved' /\ Busy(writer'[t])
         /\ Ahead(writer[t], setting) /\ Own(writer[t], setting)
         /\ writer'[t].todo = Tail(writer[t].todo) /\ writer'[t].new = writer[t].new
         /\ writer'[t].handler = writer[t].handler
         /\ \A u \in Set!Writers \ {t} : writer'[u] = writer[u]
<1>1. SettingFields /\ OneBusy
  BY DEF SettingsInv
<1>2. DOMAIN flash' = {"a", "b"} /\ DOMAIN durable' = {"a", "b"} /\ DOMAIN asked' = {"a", "b"}
      /\ setHist' = setHist
  BY <1>1 DEF SettingFields
<1>3. /\ Ahead(writer[t], setting) /\ Own(writer[t], setting)
      /\ SettingFields' /\ Handlers' /\ OneBusy'
      /\ writer'[t].todo = Tail(writer[t].todo) /\ writer'[t].new = writer[t].new
      /\ writer'[t].chg = writer[t].chg /\ writer'[t].err = writer[t].err
      /\ writer'[t].handler = writer[t].handler
      /\ \A u \in Set!Writers \ {t} : writer'[u] = writer[u]
  BY <1>2, HandlerAdvances
<1>4. Busy(writer'[t])
  BY <1>3 DEF Ahead, Busy
<1>5. \A x \in {"a", "b", "commit", "get"} : Left(writer[t].todo, x) => Left(writer'[t].todo, x)
  BY <1>3 DEF Ahead
<1>6. Saved'
  <2> SUFFICES ASSUME Calm(setting, setHist)
               PROVE  /\ \A u \in Set!Writers : Busy(writer'[u]) =>
                           Written(writer'[u], flash, durable, setting)
                      /\ \A j \in KeysOf(setting) :
                           Known(flash[j], j, asked, writer') /\ Known(durable[j], j, asked, writer')
    BY <1>2 DEF Saved
  <2>1. \A u \in Set!Writers \ {t} : ~Busy(writer'[u])
    BY <1>1, <1>3, OnlyBusy
  <2>2. /\ Written(writer[t], flash, durable, setting)
        /\ \A j \in KeysOf(setting) :
             Known(flash[j], j, asked, writer) /\ Known(durable[j], j, asked, writer)
    BY DEF SettingsInv, Saved
  <2>3. Written(writer'[t], flash, durable, setting)
    BY <1>3, <1>5, <2>2 DEF Written, Own
  <2>4. \A j \in KeysOf(setting) : \A v :
          Known(v, j, asked, writer) => Known(v, j, asked, writer')
    BY <1>3, <1>4, <2>1 DEF Known
  <2> QED
    BY <2>1, <2>2, <2>3, <2>4
<1> QED
  BY <1>3, <1>4, <1>6

\* nvs_commit.
LEMMA SettingsCommit ==
  ASSUME SettingsInv, NEW t \in Set!Writers, Set!At(t, "commit"), Set!Advance(t),
         durable' = flash, UNCHANGED <<flash, setting, live, asked, setHist>>
  PROVE  SettingsInv'
<1> DEFINE w == writer[t]
<1>1. Busy(writer[t]) /\ Head(writer[t].todo) = "commit"
  BY DEF Set!At, Busy
<1>2. SettingFields /\ OneBusy
  BY DEF SettingsInv
<1>3. DOMAIN flash' = {"a", "b"} /\ DOMAIN durable' = {"a", "b"} /\ DOMAIN live' = {"a", "b"}
      /\ DOMAIN asked' = {"a", "b"} /\ setHist' = setHist
  BY <1>2 DEF SettingFields
<1>4. /\ Ahead(writer[t], setting) /\ Own(writer[t], setting)
      /\ SettingFields' /\ Handlers' /\ OneBusy'
      /\ writer'[t].todo = Tail(writer[t].todo) /\ writer'[t].new = writer[t].new
      /\ writer'[t].chg = writer[t].chg /\ writer'[t].err = writer[t].err
      /\ writer'[t].handler = writer[t].handler
      /\ \A u \in Set!Writers \ {t} : writer'[u] = writer[u]
  BY <1>1, <1>3, HandlerAdvances
<1>5. \A u \in Set!Writers \ {t} : writer'[u] = writer[u]
  BY <1>4
<1>6. /\ writer'[t].todo = Tail(w.todo) /\ writer'[t].new = w.new /\ writer'[t].chg = w.chg
      /\ writer'[t].err = w.err /\ writer'[t].handler = w.handler
      /\ Ahead(w, setting) /\ Own(w, setting) /\ Head(w.todo) = "commit"
  BY <1>1, <1>4
<1> HIDE DEF w
<1>7. /\ Left(Tail(w.todo), "reply") /\ ~Left(Tail(w.todo), "ram") /\ ~Left(w.todo, "ram")
      /\ \A x \in {"a", "b", "get", "local", "apply", "restart", "reply"} :
           Left(w.todo, x) => Left(Tail(w.todo), x)
  BY <1>6 DEF Ahead
<1>8. Busy(writer'[t])
  BY <1>6, <1>7 DEF Ahead, Busy
<1>9. Saved'
  <2> SUFFICES ASSUME Calm(setting, setHist)
               PROVE  /\ \A u \in Set!Writers : Busy(writer'[u]) =>
                           Written(writer'[u], flash, flash, setting)
                      /\ \A j \in KeysOf(setting) : Known(flash[j], j, asked, writer')
    BY <1>3 DEF Saved
  <2>1. \A u \in Set!Writers \ {t} : ~Busy(writer[u]) /\ ~Busy(writer'[u])
    BY <1>1, <1>2, <1>5, OnlyBusy
  <2>2. /\ Written(w, flash, durable, setting)
        /\ \A j \in KeysOf(setting) : Known(flash[j], j, asked, writer)
    BY <1>1 DEF SettingsInv, Saved, w
  <2>3. Written(writer'[t], flash, flash, setting)
    BY <1>6, <1>7, <2>2 DEF Written, Ahead, Own
  <2>4. \A j \in KeysOf(setting) : \A v :
          Known(v, j, asked, writer) => Known(v, j, asked, writer')
    BY <1>5, <1>6, <1>8, <2>1 DEF Known, w
  <2> QED
    BY <2>1, <2>2, <2>3, <2>4
<1>10. GainKept'
  <2>1. setting = "gain" /\ Calm(setting, setHist) => live["a"] = w.new["a"]
        /\ \A u \in Set!Writers : Busy(writer[u]) /\ ~Left(writer[u].todo, "ram")
             => live["a"] = writer[u].new["a"]
    BY <1>1, <1>7 DEF SettingsInv, GainKept, w
  <2> QED
    BY <1>3, <1>5, <1>6, <1>7, <1>8, <2>1 DEF GainKept
<1>11. Applied'
  <2> SUFFICES ASSUME Followed(setting, setHist), NEW j \in {"a", "b"}, live[j] # flash[j]
               PROVE  \E u \in Set!Writers : SeenTo(writer'[u], j, setting)
    BY <1>3 DEF Applied
  <2>1. PICK u \in Set!Writers : SeenTo(writer[u], j, setting)
    BY DEF SettingsInv, Applied
  <2>2. CASE u = t
    <3>1. SeenTo(writer'[t], j, setting)
      BY <1>6, <1>7, <2>1, <2>2 DEF SeenTo, w
    <3> QED
      BY <3>1
  <2> QED
    BY <1>5, <2>1, <2>2
<1> QED
  BY <1>4, <1>9, <1>10, <1>11 DEF SettingsInv

\* The drivers are told, and the RAM copy of the gain changes.
LEMMA SettingsLocal ==
  ASSUME SettingsInv, NEW t \in Set!Writers, Set!ApplyLocal(t)
  PROVE  SettingsInv'
<1>1. Busy(writer[t]) /\ Head(writer[t].todo) = "local" /\ Set!Advance(t)
      /\ UNCHANGED <<flash, durable, setting, asked, setHist>>
      /\ live' = [k \in {"a", "b"} |->
                    IF k \in Stored(writer[t].handler, setting) THEN writer[t].new[k] ELSE live[k]]
  BY StoredIs DEF Set!ApplyLocal, Set!At, Busy
<1>2. DOMAIN live' = {"a", "b"}
  BY <1>1
<1>3. /\ SettingFields' /\ Handlers' /\ OneBusy' /\ Saved'
      /\ Ahead(writer[t], setting) /\ Own(writer[t], setting)
      /\ \A u \in Set!Writers \ {t} : writer'[u] = writer[u]
  BY <1>1, <1>2, SavedStays
<1>4. setting \in {"tone", "protection"}
  BY <1>1, <1>3 DEF Ahead
<1>5. GainKept'
  BY <1>1, <1>4 DEF GainKept
<1>6. Applied'
  <2> SUFFICES ASSUME Followed(setting, setHist), NEW j \in {"a", "b"}, live'[j] # flash[j]
               PROVE  \E u \in Set!Writers : SeenTo(writer'[u], j, setting)
    BY <1>1 DEF Applied
  <2>1. Calm(setting, setHist) /\ ~setHist.failed
    BY <1>4 DEF Followed, Calm
  <2>2. ~writer[t].err
    BY <1>1, <2>1 DEF SettingsInv, Handlers, InHandler, Busy
  <2>3. Written(writer[t], flash, durable, setting)
    BY <1>1, <2>1 DEF SettingsInv, Saved
  <2>4. j \notin Stored(writer[t].handler, setting)
    BY <1>1, <1>3, <2>2, <2>3 DEF Written, Ahead
  <2>5. live'[j] = live[j]
    BY <1>1, <2>4
  <2>6. PICK u \in Set!Writers : SeenTo(writer[u], j, setting)
    BY <2>5 DEF SettingsInv, Applied
  <2> QED
    BY <1>3, <2>4, <2>6 DEF SeenTo
<1> QED
  BY <1>3, <1>5, <1>6 DEF SettingsInv

LEMMA SettingsReread ==
  ASSUME SettingsInv, NEW t \in Set!Writers, Set!ApplyReread(t)
  PROVE  SettingsInv'
<1>1. Busy(writer[t]) /\ Head(writer[t].todo) = "apply" /\ Set!Advance(t)
      /\ UNCHANGED <<flash, durable, setting, asked, setHist>>
      /\ live' = [k \in {"a", "b"} |->
                    IF k \in Stored(writer[t].handler, setting) THEN flash[k] ELSE live[k]]
  BY StoredIs DEF Set!ApplyReread, Set!At, Busy
<1>2. DOMAIN live' = {"a", "b"}
  BY <1>1
<1>3. /\ SettingFields' /\ Handlers' /\ OneBusy' /\ Saved'
      /\ Ahead(writer[t], setting) /\ Own(writer[t], setting)
      /\ \A u \in Set!Writers \ {t} : writer'[u] = writer[u]
  BY <1>1, <1>2, SavedStays
<1>4. setting # "gain"
  BY <1>1, <1>3 DEF Ahead
<1>5. GainKept'
  BY <1>1, <1>4 DEF GainKept
<1>6. Applied'
  <2> SUFFICES ASSUME Followed(setting, setHist), NEW j \in {"a", "b"}, live'[j] # flash[j]
               PROVE  \E u \in Set!Writers : SeenTo(writer'[u], j, setting)
    BY <1>1 DEF Applied
  <2>1. j \notin Stored(writer[t].handler, setting) /\ live'[j] = live[j]
    BY <1>1
  <2>2. PICK u \in Set!Writers : SeenTo(writer[u], j, setting)
    BY <2>1 DEF SettingsInv, Applied
  <2> QED
    BY <1>3, <2>1, <2>2 DEF SeenTo
<1> QED
  BY <1>3, <1>5, <1>6 DEF SettingsInv

LEMMA SettingsRam ==
  ASSUME SettingsInv, NEW t \in Set!Writers, Set!ApplyRam(t)
  PROVE  SettingsInv'
<1>1. Busy(writer[t]) /\ Head(writer[t].todo) = "ram" /\ Set!Advance(t)
      /\ UNCHANGED <<flash, durable, setting, asked, setHist>>
      /\ live' = [live EXCEPT !["a"] = writer[t].new["a"]]
  BY DEF Set!ApplyRam, Set!At, Busy
<1>2. DOMAIN live' = {"a", "b"} /\ live'["a"] = writer[t].new["a"]
  BY <1>1 DEF SettingsInv, SettingFields
<1>3. /\ SettingFields' /\ Handlers' /\ OneBusy' /\ Saved' /\ Busy(writer'[t])
      /\ Ahead(writer[t], setting) /\ Own(writer[t], setting)
      /\ writer'[t].todo = Tail(writer[t].todo) /\ writer'[t].new = writer[t].new
      /\ \A u \in Set!Writers \ {t} : writer'[u] = writer[u]
  BY <1>1, <1>2, SavedStays
<1>4. setting = "gain" /\ ~Left(writer'[t].todo, "ram")
  BY <1>1, <1>3 DEF Ahead
<1>5. Calm(setting, setHist) => \A u \in Set!Writers \ {t} : ~Busy(writer'[u])
  BY <1>1, <1>3, OnlyBusy DEF SettingsInv
<1>6. GainKept'
  BY <1>1, <1>2, <1>3, <1>4, <1>5 DEF GainKept
<1>7. Applied'
  BY <1>1, <1>4 DEF Applied, Followed
<1> QED
  BY <1>3, <1>6, <1>7 DEF SettingsInv

\* The answer.
LEMMA SettingsReply ==
  ASSUME SettingsInv, NEW t \in Set!Writers, Set!Reply(t)
  PROVE  SettingsInv'
<1> DEFINE w == writer[t]
<1>1. /\ Busy(writer[t]) /\ Head(writer[t].todo) = "reply" /\ Set!Advance(t)
      /\ asked' = [k \in {"a", "b"} |->
           IF k \notin w.chg THEN asked[k]
           ELSE IF w.err THEN asked[k] \union {w.new[k]} ELSE {w.new[k]}]
      /\ setHist' = [setHist EXCEPT !.unapplied = @ \/ w.handler.apply = "never"]
      /\ UNCHANGED <<setting, flash, durable, live>>
  BY DEF Set!Reply, Set!At, Busy
<1>2. SettingFields /\ OneBusy
  BY DEF SettingsInv
<1>3. /\ setHist'.overlap = setHist.overlap /\ setHist'.failed = setHist.failed
      /\ setHist'.unapplied = (setHist.unapplied \/ w.handler.apply = "never")
      /\ setHist' = [overlap |-> setHist.overlap, failed |-> setHist.failed,
                     unapplied |-> setHist'.unapplied, requests |-> setHist.requests,
                     faults |-> setHist.faults, cuts |-> setHist.cuts]
  BY <1>1, <1>2 DEF SettingFields
<1>4. DOMAIN flash' = {"a", "b"} /\ DOMAIN durable' = {"a", "b"} /\ DOMAIN live' = {"a", "b"}
      /\ DOMAIN asked' = {"a", "b"}
  BY <1>1, <1>2 DEF SettingFields
<1>5. /\ SettingFields' /\ Handlers' /\ OneBusy' /\ writer'[t] = OnNext(writer[t])
      /\ \A u \in Set!Writers \ {t} : writer'[u] = writer[u]
  BY <1>1, <1>3, <1>4, TaskAdvances DEF SettingsInv
<1>6. /\ writer'[t].todo = Tail(w.todo) /\ writer'[t].new = w.new /\ writer'[t].chg = w.chg
      /\ writer'[t].err = w.err /\ writer'[t].handler = w.handler
  BY <1>5 DEF OnNext
<1>7. Ahead(w, setting) /\ Own(w, setting) /\ Head(w.todo) = "reply"
      /\ InHandler(w, setting, setHist.failed)
  BY <1>1, AheadIs DEF SettingsInv, Handlers
<1>8. \A u \in Set!Writers \ {t} : writer'[u] = writer[u]
  BY <1>5
<1> HIDE DEF w
<1>9. /\ ~Left(Tail(w.todo), "ram") /\ ~Left(w.todo, "ram") /\ ~Left(w.todo, "get")
      /\ \A x \in {"a", "b", "commit", "local", "apply"} :
           ~Left(w.todo, x) /\ ~Left(Tail(w.todo), x)
      /\ Left(w.todo, "restart") => Left(Tail(w.todo), "restart")
  BY <1>7 DEF Ahead
<1>10. Calm(setting, setHist) =>
         /\ \A u \in Set!Writers \ {t} : ~Busy(writer[u]) /\ ~Busy(writer'[u])
         /\ Written(w, flash, durable, setting)
         /\ \A j \in KeysOf(setting) :
              Known(flash[j], j, asked, writer) /\ Known(durable[j], j, asked, writer)
         /\ ~w.err => \A j \in Stored(w.handler, setting) :
                        flash[j] = w.new[j] /\ durable[j] = w.new[j]
  <2>1. SUFFICES ASSUME Calm(setting, setHist)
        PROVE  /\ \A u \in Set!Writers \ {t} : ~Busy(writer[u]) /\ ~Busy(writer'[u])
               /\ Written(w, flash, durable, setting)
               /\ \A j \in KeysOf(setting) :
                    Known(flash[j], j, asked, writer) /\ Known(durable[j], j, asked, writer)
               /\ ~w.err => \A j \in Stored(w.handler, setting) :
                              flash[j] = w.new[j] /\ durable[j] = w.new[j]
    OBVIOUS
  <2>2. \A u \in Set!Writers \ {t} : ~Busy(writer[u]) /\ ~Busy(writer'[u])
    BY <1>1, <1>2, <1>8, <2>1, OnlyBusy
  <2>3. Written(w, flash, durable, setting)
    BY <1>1, <2>1 DEF SettingsInv, Saved, w
  <2>4. \A j \in KeysOf(setting) :
          Known(flash[j], j, asked, writer) /\ Known(durable[j], j, asked, writer)
    BY <2>1 DEF SettingsInv, Saved
  <2> QED
    BY <1>7, <1>9, <2>2, <2>3, <2>4 DEF Written, Own
<1>11. Calm(setting, setHist') <=> Calm(setting, setHist)
  BY <1>3 DEF Calm
<1>12. Saved'
  <2> SUFFICES ASSUME Calm(setting, setHist)
               PROVE  /\ \A u \in Set!Writers : Busy(writer'[u]) =>
                           Written(writer'[u], flash, durable, setting)
                      /\ \A j \in KeysOf(setting) :
                           Known(flash[j], j, asked', writer') /\ Known(durable[j], j, asked', writer')
    BY <1>1, <1>11 DEF Saved
  <2>1. Written(writer'[t], flash, durable, setting)
    BY <1>6, <1>7, <1>9, <1>10 DEF Written, Own
  <2>2. ASSUME NEW j \in KeysOf(setting), NEW v, v = flash[j] \/ v = durable[j]
        PROVE  Known(v, j, asked', writer')
    <3>1. j \in {"a", "b"} /\ Known(v, j, asked, writer)
      BY <1>10, <2>2 DEF KeysOf
    <3>2. CASE j \notin w.chg
      <4>1. v \in asked[j]
        BY <1>10, <3>1, <3>2 DEF Known, w
      <4> QED
        BY <1>1, <3>1, <3>2, <4>1 DEF Known, w
    <3>3. CASE j \in w.chg /\ w.err
      <4>1. v \in asked[j] \/ v = w.new[j]
        BY <1>10, <3>1 DEF Known, w
      <4> QED
        BY <1>1, <3>1, <3>3, <4>1 DEF Known, w
    <3>4. CASE j \in w.chg /\ ~w.err
      <4>1. v = w.new[j]
        BY <1>7, <1>10, <2>2, <3>4 DEF Own
      <4> QED
        BY <1>1, <3>1, <3>4, <4>1 DEF Known, w
    <3> QED
      BY <3>2, <3>3, <3>4
  <2> QED
    BY <1>8, <1>10, <2>1, <2>2
<1>13. GainKept'
  <2> SUFFICES ASSUME setting = "gain", Calm(setting, setHist)
               PROVE  /\ (\A u \in Set!Writers : Busy(writer'[u]) => Left(writer'[u].todo, "ram"))
                           => live["a"] = flash["a"] /\ durable["a"] = flash["a"]
                      /\ \A u \in Set!Writers :
                           Busy(writer'[u]) /\ ~Left(writer'[u].todo, "ram")
                             => live["a"] = writer'[u].new["a"]
    BY <1>1, <1>11 DEF GainKept
  <2>1. live["a"] = w.new["a"]
    BY <1>1, <1>9 DEF SettingsInv, GainKept, w
  <2>2. ~w.err
    BY <1>1, <1>7 DEF Calm, InHandler, Busy, w
  <2>3. flash["a"] = w.new["a"] /\ durable["a"] = w.new["a"]
    BY <1>7, <1>10, <2>2 DEF Own
  <2> QED
    BY <1>6, <1>8, <1>10, <2>1, <2>3
<1>14. Applied'
  <2> SUFFICES ASSUME Followed(setting, setHist'), NEW j \in {"a", "b"}, live[j] # flash[j]
               PROVE  \E u \in Set!Writers : SeenTo(writer'[u], j, setting)
    BY <1>1 DEF Applied
  <2>1. Followed(setting, setHist) /\ w.handler.apply # "never"
    BY <1>3 DEF Followed
  <2>2. PICK u \in Set!Writers : SeenTo(writer[u], j, setting)
    BY <2>1 DEF SettingsInv, Applied
  <2>3. CASE u = t
    <3>1. SeenTo(writer'[t], j, setting)
      BY <1>6, <1>9, <2>1, <2>2, <2>3 DEF SeenTo, w
    <3> QED
      BY <3>1
  <2> QED
    BY <1>8, <2>2, <2>3
<1> QED
  BY <1>5, <1>12, <1>13, <1>14 DEF SettingsInv

\* What a handler has read it keeps.
LEMMA SettingsGet ==
  ASSUME SettingsInv, NEW t \in Set!Writers, Set!Get(t)
  PROVE  SettingsInv'
<1> DEFINE w == writer[t]
           got == IF w.handler.store.cache = "first" THEN live ELSE flash
           new == [k \in {"a", "b"} |-> IF k \in w.chg THEN w.new[k] ELSE got[k]]
           v == [todo |-> Tail(w.todo), new |-> new, chg |-> w.chg, err |-> w.err,
                 handler |-> w.handler]
<1>1. /\ Busy(writer[t]) /\ Head(writer[t].todo) = "get"
      /\ writer' = [writer EXCEPT ![t].todo = Tail(@), ![t].new = new]
      /\ UNCHANGED <<setting, flash, durable, live, asked, setHist>>
  BY DEF Set!Get, Set!At, Busy
<1>2. SettingFields /\ Handlers /\ OneBusy
  BY DEF SettingsInv
<1>3. Ahead(w, setting) /\ Own(w, setting) /\ Task(w, setting)
      /\ InHandler(w, setting, setHist.failed) /\ w \in {writer[t]}
  BY <1>1, <1>2, AheadIs DEF SettingFields, Handlers
<1>4. Orderly(Tail(w.todo), w.handler, setting) /\ Tail(w.todo) \in Seq(SettingSteps)
  BY <1>1, <1>3, OrderlyTail, LeftIs DEF Task, Busy
<1>5. Task(v, setting) /\ InHandler(v, setting, setHist.failed)
  BY <1>1, <1>3, <1>4 DEF Task, InHandler, Busy
<1>6. writer' = [writer EXCEPT ![t] = v]
  <2>1. PICK x : x = [w EXCEPT !.todo = Tail(@)]
    OBVIOUS
  <2>2. x = [todo |-> Tail(w.todo), new |-> w.new, chg |-> w.chg, err |-> w.err,
             handler |-> w.handler]
    BY <1>3, <2>1 DEF Task
  <2>3. PICK y : y = [x EXCEPT !.new = new]
    OBVIOUS
  <2>4. y = v
    BY <2>2, <2>3
  <2> HIDE DEF v, w, new, got
  <2>5. writer' = [writer EXCEPT ![t] = y]
    BY <1>1, <1>2, <2>1, <2>3 DEF SettingFields, w
  <2> QED
    BY <2>4, <2>5
<1> HIDE DEF v
<1>7. setHist' = [overlap |-> setHist'.overlap, failed |-> setHist'.failed,
                  unapplied |-> setHist'.unapplied, requests |-> setHist'.requests,
                  faults |-> setHist'.faults, cuts |-> setHist'.cuts] /\ setHist' = setHist
      /\ DOMAIN flash' = {"a", "b"} /\ DOMAIN durable' = {"a", "b"}
      /\ DOMAIN live' = {"a", "b"} /\ DOMAIN asked' = {"a", "b"}
  BY <1>1, <1>2 DEF SettingFields
<1>8. /\ SettingFields' /\ Handlers' /\ OneBusy' /\ writer'[t] = v
      /\ \A u \in Set!Writers \ {t} : writer'[u] = writer[u]
  BY <1>1, <1>2, <1>5, <1>6, <1>7, TaskMoves
<1>9. /\ writer'[t].todo = Tail(w.todo) /\ writer'[t].new = new /\ writer'[t].chg = w.chg
      /\ writer'[t].err = w.err /\ writer'[t].handler = w.handler
  BY <1>8 DEF v
<1>10. \A k \in w.chg : new[k] = w.new[k]
  BY <1>3 DEF Own
<1>11. \A k \in Stored(w.handler, setting) \ w.chg : new[k] = flash[k]
  BY <1>3 DEF Own
<1>12. Head(w.todo) = "get"
  BY <1>1
<1>13. \A u \in Set!Writers \ {t} : writer'[u] = writer[u]
  BY <1>8
<1> HIDE DEF w, new, got
<1>14. /\ \A k \in Stored(w.handler, setting) : Left(Tail(w.todo), k)
       /\ Left(Tail(w.todo), "commit") /\ Left(Tail(w.todo), "reply")
       /\ \A x \in {"ram", "local", "apply", "restart", "reply"} :
            Left(w.todo, x) <=> Left(Tail(w.todo), x)
       /\ Tail(w.todo) # << >>
  BY <1>3, <1>12 DEF Ahead
<1>15. Busy(writer'[t])
  BY <1>9, <1>14 DEF Busy
<1>16. Saved'
  <2> SUFFICES ASSUME Calm(setting, setHist)
               PROVE  /\ \A u \in Set!Writers : Busy(writer'[u]) =>
                           Written(writer'[u], flash, durable, setting)
                      /\ \A j \in KeysOf(setting) :
                           Known(flash[j], j, asked, writer') /\ Known(durable[j], j, asked, writer')
    BY <1>1 DEF Saved
  <2>1. \A u \in Set!Writers \ {t} : ~Busy(writer[u]) /\ ~Busy(writer'[u])
    BY <1>1, <1>2, <1>13, OnlyBusy
  <2>2. \A j \in KeysOf(setting) :
          Known(flash[j], j, asked, writer) /\ Known(durable[j], j, asked, writer)
    BY DEF SettingsInv, Saved
  <2>3. Written(writer'[t], flash, durable, setting)
    BY <1>9, <1>11, <1>14 DEF Written
  <2>4. \A j \in KeysOf(setting) : \A x :
        Known(x, j, asked, writer) => Known(x, j, asked, writer')
    BY <1>9, <1>10, <1>13, <1>15 DEF Known, w
  <2> QED
    BY <2>1, <2>2, <2>3, <2>4
<1>17. GainKept'
  <2> SUFFICES ASSUME setting = "gain", Calm(setting, setHist)
               PROVE  /\ (\A u \in Set!Writers : Busy(writer'[u]) => Left(writer'[u].todo, "ram"))
                           => live["a"] = flash["a"] /\ durable["a"] = flash["a"]
                      /\ \A u \in Set!Writers :
                           Busy(writer'[u]) /\ ~Left(writer'[u].todo, "ram")
                             => live["a"] = writer'[u].new["a"]
    BY <1>1 DEF GainKept
  <2>1. new["a"] = w.new["a"]
    BY <1>3, <1>10 DEF Own
  <2>2. Busy(w)
    BY <1>1 DEF w
  <2>3. /\ Left(writer'[t].todo, "ram") <=> Left(writer[t].todo, "ram")
        /\ writer'[t].new["a"] = writer[t].new["a"]
    BY <1>9, <1>14, <2>1 DEF w
  <2>4. /\ (\A u \in Set!Writers : Busy(writer[u]) => Left(writer[u].todo, "ram"))
             => live["a"] = flash["a"] /\ durable["a"] = flash["a"]
        /\ \A u \in Set!Writers :
             Busy(writer[u]) /\ ~Left(writer[u].todo, "ram") => live["a"] = writer[u].new["a"]
    BY DEF SettingsInv, GainKept
  <2> QED
    BY <1>1, <1>13, <1>15, <2>3, <2>4
<1>18. Applied'
  <2> SUFFICES ASSUME Followed(setting, setHist), NEW j \in {"a", "b"}, live[j] # flash[j]
               PROVE  \E u \in Set!Writers : SeenTo(writer'[u], j, setting)
    BY <1>1 DEF Applied
  <2>1. PICK u \in Set!Writers : SeenTo(writer[u], j, setting)
    BY DEF SettingsInv, Applied
  <2>2. CASE u = t
    <3>1. SeenTo(writer'[t], j, setting)
      BY <1>9, <1>14, <2>1, <2>2 DEF SeenTo, w
    <3> QED
      BY <3>1
  <2> QED
    BY <1>13, <2>1, <2>2
<1> QED
  BY <1>8, <1>16, <1>17, <1>18 DEF SettingsInv

\* The gain is what it was.
LEMMA SettingsSkip ==
  ASSUME SettingsInv, NEW t \in Set!Writers, Set!SkipUnchanged(t)
  PROVE  SettingsInv'
<1> DEFINE w == writer[t]
           rest == IF w.new["a"] = live["a"] THEN <<"reply">> ELSE Tail(w.todo)
           v == [todo |-> rest, new |-> w.new, chg |-> w.chg, err |-> w.err,
                 handler |-> w.handler]
<1>1. /\ Busy(writer[t]) /\ Head(writer[t].todo) = "same"
      /\ writer' = [writer EXCEPT ![t].todo = rest]
      /\ UNCHANGED <<setting, flash, durable, live, asked, setHist>>
  BY DEF Set!SkipUnchanged, Set!At, Busy
<1>2. SettingFields /\ Handlers /\ OneBusy
  BY DEF SettingsInv
<1>3. Ahead(w, setting) /\ Own(w, setting) /\ Task(w, setting)
      /\ InHandler(w, setting, setHist.failed) /\ w \in {writer[t]}
  BY <1>1, <1>2, AheadIs DEF SettingFields, Handlers
<1>4. Orderly(rest, w.handler, setting) /\ rest \in Seq(SettingSteps)
  BY <1>1, <1>3, OrderlyTail, LeftIs, FailuresOrderly DEF Task, Busy
<1>5. Task(v, setting) /\ InHandler(v, setting, setHist.failed)
  <2> HIDE DEF rest
  <2> QED
    BY <1>1, <1>3, <1>4 DEF Task, InHandler, Busy
<1>6. writer' = [writer EXCEPT ![t] = v]
  <2>1. PICK x : x = [w EXCEPT !.todo = rest]
    OBVIOUS
  <2> HIDE DEF rest
  <2>2. x = v
    BY <1>3, <2>1 DEF Task
  <2> HIDE DEF v, w
  <2>3. writer' = [writer EXCEPT ![t] = x]
    BY <1>1, <1>2, <2>1 DEF SettingFields, w
  <2> QED
    BY <2>2, <2>3
<1> HIDE DEF v
<1>7. setHist' = [overlap |-> setHist'.overlap, failed |-> setHist'.failed,
                  unapplied |-> setHist'.unapplied, requests |-> setHist'.requests,
                  faults |-> setHist'.faults, cuts |-> setHist'.cuts] /\ setHist' = setHist
      /\ DOMAIN flash' = {"a", "b"} /\ DOMAIN durable' = {"a", "b"}
      /\ DOMAIN live' = {"a", "b"} /\ DOMAIN asked' = {"a", "b"}
  BY <1>1, <1>2 DEF SettingFields
<1>8. /\ SettingFields' /\ Handlers' /\ OneBusy' /\ writer'[t] = v
      /\ \A u \in Set!Writers \ {t} : writer'[u] = writer[u]
  BY <1>1, <1>2, <1>5, <1>6, <1>7, TaskMoves
<1>9. /\ writer'[t].todo = rest /\ writer'[t].new = w.new /\ writer'[t].chg = w.chg
      /\ writer'[t].err = w.err /\ writer'[t].handler = w.handler
  BY <1>8 DEF v
<1>10. setting = "gain" /\ Left(Tail(w.todo), "ram") /\ Tail(w.todo) # << >>
       /\ \A x : Left(w.todo, x) <=> x = "same" \/ Left(Tail(w.todo), x)
  BY <1>1, <1>3 DEF Ahead
<1>11. Stored(w.handler, setting) = {"a"} /\ w.chg = {"a"}
  BY <1>3, <1>10 DEF Own
<1>12. \A u \in Set!Writers \ {t} : writer'[u] = writer[u]
  BY <1>8
<1>13. CASE w.new["a"] = live["a"]
  <2>1. writer'[t].todo = <<"reply">>
    BY <1>9, <1>13
  <2> HIDE DEF rest, w
  <2>2. Busy(writer'[t]) /\ \A x : Left(writer'[t].todo, x) <=> x = "reply"
    BY <2>1, FailuresOrderly DEF Busy
  <2>3. Calm(setting, setHist) =>
          /\ \A u \in Set!Writers \ {t} : ~Busy(writer[u]) /\ ~Busy(writer'[u])
          /\ live["a"] = flash["a"] /\ durable["a"] = flash["a"]
    <3> SUFFICES ASSUME Calm(setting, setHist)
                 PROVE  /\ \A u \in Set!Writers \ {t} : ~Busy(writer[u]) /\ ~Busy(writer'[u])
                        /\ live["a"] = flash["a"] /\ durable["a"] = flash["a"]
      OBVIOUS
    <3>1. \A u \in Set!Writers \ {t} : ~Busy(writer[u]) /\ ~Busy(writer'[u])
      BY <1>1, <1>2, <1>12, OnlyBusy
    <3>2. Left(writer[t].todo, "ram")
      BY <1>10 DEF w
    <3> QED
      BY <1>10, <3>1, <3>2 DEF SettingsInv, GainKept
  <2>4. Saved'
    <3> SUFFICES ASSUME Calm(setting, setHist)
                 PROVE  /\ \A u \in Set!Writers : Busy(writer'[u]) =>
                             Written(writer'[u], flash, durable, setting)
                        /\ \A j \in KeysOf(setting) :
                             Known(flash[j], j, asked, writer') /\ Known(durable[j], j, asked, writer')
      BY <1>1 DEF Saved
    <3>1. Written(writer'[t], flash, durable, setting)
      BY <1>9, <1>11, <1>13, <2>3 DEF Written
    <3>2. \A j \in KeysOf(setting) :
            Known(flash[j], j, asked, writer) /\ Known(durable[j], j, asked, writer)
      BY DEF SettingsInv, Saved
    <3>3. \A j \in KeysOf(setting) : \A x :
          Known(x, j, asked, writer) => Known(x, j, asked, writer')
      BY <1>9, <1>12, <2>2 DEF Known, w
    <3> QED
      BY <2>3, <3>1, <3>2, <3>3
  <2>5. GainKept'
    BY <1>1, <1>9, <1>13, <2>2, <2>3 DEF GainKept
  <2>6. Applied'
    BY <1>1, <1>10 DEF Applied, Followed
  <2> QED
    BY <1>8, <2>4, <2>5, <2>6 DEF SettingsInv
<1>14. CASE w.new["a"] # live["a"]
  <2>1. writer'[t].todo = Tail(w.todo)
    BY <1>9, <1>14
  <2> HIDE DEF rest, w
  <2>2. Busy(writer'[t])
    BY <1>10, <2>1 DEF Busy
  <2>3. Saved'
    <3> SUFFICES ASSUME Calm(setting, setHist)
                 PROVE  /\ \A u \in Set!Writers : Busy(writer'[u]) =>
                             Written(writer'[u], flash, durable, setting)
                        /\ \A j \in KeysOf(setting) :
                             Known(flash[j], j, asked, writer') /\ Known(durable[j], j, asked, writer')
      BY <1>1 DEF Saved
    <3>1. \A u \in Set!Writers \ {t} : ~Busy(writer[u]) /\ ~Busy(writer'[u])
      BY <1>1, <1>2, <1>12, OnlyBusy
    <3>2. Written(w, flash, durable, setting)
      BY <1>1 DEF SettingsInv, Saved, w
    <3>3. Written(writer'[t], flash, durable, setting)
      BY <1>9, <1>10, <1>11, <2>1, <3>2 DEF Written
    <3>4. \A j \in KeysOf(setting) :
            Known(flash[j], j, asked, writer) /\ Known(durable[j], j, asked, writer)
      BY DEF SettingsInv, Saved
    <3>5. \A j \in KeysOf(setting) : \A x :
          Known(x, j, asked, writer) => Known(x, j, asked, writer')
      BY <1>9, <1>12, <2>2 DEF Known, w
    <3> QED
      BY <3>1, <3>3, <3>4, <3>5
  <2>4. GainKept'
    <3>1. Left(writer'[t].todo, "ram") /\ Left(writer[t].todo, "ram")
      BY <1>10, <2>1 DEF w
    <3> QED
      BY <1>1, <1>12, <3>1 DEF SettingsInv, GainKept
  <2>5. Applied'
    BY <1>1, <1>10 DEF Applied, Followed
  <2> QED
    BY <1>8, <2>3, <2>4, <2>5 DEF SettingsInv
<1> QED
  BY <1>13, <1>14

\* A write fails: the handler gives up, or does what it does regardless.
LEMMA SettingsWriteFails ==
  ASSUME SettingsInv, NEW t \in Set!Writers, Set!WriteFails(t)
  PROVE  SettingsInv'
<1> DEFINE w == writer[t]
           rest == IF w.handler.obeys THEN <<"reply">> ELSE <<"local", "reply">>
           v == [todo |-> rest, new |-> w.new, chg |-> w.chg, err |-> TRUE,
                 handler |-> w.handler]
<1>1. /\ Busy(writer[t]) /\ Head(writer[t].todo) \in {"a", "b", "commit"}
      /\ writer' = [writer EXCEPT ![t].err = TRUE, ![t].todo = rest]
      /\ setHist' = [setHist EXCEPT !.failed = TRUE, !.faults = @ + 1]
      /\ UNCHANGED <<setting, flash, durable, live, asked>>
  BY DEF Set!WriteFails, Set!At, Busy
<1>2. SettingFields /\ Handlers /\ OneBusy
  BY DEF SettingsInv
<1>3. Ahead(w, setting) /\ Own(w, setting) /\ Task(w, setting)
      /\ InHandler(w, setting, setHist.failed) /\ w \in {writer[t]}
  BY <1>1, <1>2, AheadIs DEF SettingFields, Handlers
<1>4. /\ setHist'.overlap = setHist.overlap /\ setHist'.failed = TRUE
      /\ setHist' = [overlap |-> setHist'.overlap, failed |-> setHist'.failed,
                     unapplied |-> setHist'.unapplied, requests |-> setHist'.requests,
                     faults |-> setHist'.faults, cuts |-> setHist'.cuts]
      /\ DOMAIN flash' = {"a", "b"} /\ DOMAIN durable' = {"a", "b"}
      /\ DOMAIN live' = {"a", "b"} /\ DOMAIN asked' = {"a", "b"}
  BY <1>1, <1>2 DEF SettingFields
<1>5. Orderly(rest, w.handler, setting) /\ rest \in Seq(SettingSteps) /\ rest # << >>
      /\ ~Left(rest, "get")
  BY <1>3, FailuresOrderly DEF Own
<1>6. Task(v, setting) /\ InHandler(v, setting, setHist'.failed)
  <2> HIDE DEF rest
  <2> QED
    BY <1>1, <1>3, <1>4, <1>5 DEF Task, InHandler, Busy
<1>7. writer' = [writer EXCEPT ![t] = v]
  <2>1. PICK x : x = [w EXCEPT !.err = TRUE]
    OBVIOUS
  <2>2. PICK y : y = [x EXCEPT !.todo = rest]
    OBVIOUS
  <2> HIDE DEF rest
  <2>3. y = v
    BY <1>3, <2>1, <2>2 DEF Task
  <2> HIDE DEF v, w
  <2>4. writer' = [writer EXCEPT ![t] = y]
    BY <1>1, <1>2, <2>1, <2>2 DEF SettingFields, w
  <2> QED
    BY <2>3, <2>4
<1> HIDE DEF v
<1>8. /\ SettingFields' /\ Handlers' /\ OneBusy' /\ writer'[t] = v
      /\ \A u \in Set!Writers \ {t} : writer'[u] = writer[u]
  BY <1>1, <1>2, <1>4, <1>6, <1>7, TaskMoves, ZenonT(40)
<1>9. /\ writer'[t].todo = rest /\ writer'[t].new = w.new /\ writer'[t].chg = w.chg
      /\ writer'[t].err = TRUE /\ writer'[t].handler = w.handler
  BY <1>8 DEF v
<1> HIDE DEF rest, w
<1>10. Busy(writer'[t])
  BY <1>5, <1>9 DEF Busy
<1>11. Saved'
  <2> SUFFICES ASSUME Calm(setting, setHist')
               PROVE  /\ \A u \in Set!Writers : Busy(writer'[u]) =>
                           Written(writer'[u], flash, durable, setting)
                      /\ \A j \in KeysOf(setting) :
                           Known(flash[j], j, asked, writer') /\ Known(durable[j], j, asked, writer')
    BY <1>1 DEF Saved
  <2>1. Calm(setting, setHist)
    BY <1>4 DEF Calm
  <2>2. \A u \in Set!Writers \ {t} : ~Busy(writer[u]) /\ ~Busy(writer'[u])
    BY <1>1, <1>2, <1>8, <2>1, OnlyBusy
  <2>3. /\ Written(w, flash, durable, setting)
        /\ \A j \in KeysOf(setting) :
             Known(flash[j], j, asked, writer) /\ Known(durable[j], j, asked, writer)
    BY <1>1, <2>1 DEF SettingsInv, Saved, w
  <2>4. ~Left(w.todo, "get")
    BY <1>1, <1>3 DEF Ahead, w
  <2>5. Written(writer'[t], flash, durable, setting)
    BY <1>9, <2>3, <2>4 DEF Written
  <2>6. \A j \in KeysOf(setting) : \A x :
        Known(x, j, asked, writer) => Known(x, j, asked, writer')
    BY <1>8, <1>9, <1>10 DEF Known, w
  <2> QED
    BY <2>2, <2>3, <2>5, <2>6
<1>12. GainKept'
  BY <1>1, <1>4 DEF GainKept, Calm
<1>13. Applied'
  BY <1>1, <1>4 DEF Applied, Followed
<1> QED
  BY <1>8, <1>11, <1>12, <1>13 DEF SettingsInv

\* A request is accepted.
LEMMA SettingsRequest ==
  ASSUME SettingsInv, NEW t \in Set!Writers, Set!Request(t)
  PROVE  SettingsInv'
<1>1. SettingFields /\ Handlers /\ OneBusy
  BY DEF SettingsInv
<1>2. PICK h \in OwnHandlersOf(setting) :
        \E given \in SUBSET Set!StoreKeys(h.store) :
        \E new \in [{"a", "b"} -> Set!Values] :
           /\ given # {} /\ (h.partial \/ given = Set!StoreKeys(h.store))
           /\ writer' = [writer EXCEPT ![t] =
                 [todo |-> Set!Steps(h), new |-> new, chg |-> given, err |-> FALSE,
                  handler |-> h]]
  BY DEF Set!Request, OwnHandlersOf
<1>3. Set!StoreKeys(h.store) = Stored(h, setting)
  BY StoredIs
<1>4. PICK given \in SUBSET Stored(h, setting), new \in [{"a", "b"} -> Set!Values] :
        /\ given # {} /\ (h.partial \/ given = Stored(h, setting))
        /\ writer' = [writer EXCEPT ![t] =
              [todo |-> Set!Steps(h), new |-> new, chg |-> given, err |-> FALSE,
               handler |-> h]]
  BY <1>2, <1>3
<1>5. /\ writer[t].todo = << >> /\ UNCHANGED <<setting, flash, durable, live, asked>>
      /\ setHist' = [setHist EXCEPT !.requests = @ + 1, !.overlap = @ \/ ~Set!Quiet]
  BY DEF Set!Request
<1>6. /\ setHist'.overlap = (setHist.overlap \/ ~Set!Quiet)
      /\ setHist'.failed = setHist.failed /\ setHist'.unapplied = setHist.unapplied
      /\ setHist' = [overlap |-> setHist'.overlap, failed |-> setHist'.failed,
                     unapplied |-> setHist'.unapplied, requests |-> setHist'.requests,
                     faults |-> setHist'.faults, cuts |-> setHist'.cuts]
      /\ DOMAIN flash' = {"a", "b"} /\ DOMAIN durable' = {"a", "b"}
      /\ DOMAIN live' = {"a", "b"} /\ DOMAIN asked' = {"a", "b"}
  BY <1>1, <1>5 DEF SettingFields
<1> DEFINE v == [todo |-> Set!Steps(h), new |-> new, chg |-> given, err |-> FALSE,
                 handler |-> h]
<1>7. HandlerKnown(h, setting)
  BY <1>1, HandlersAre DEF SettingFields
<1>8. /\ Set!Steps(h) \in Seq(SettingSteps) /\ Set!Steps(h) # << >>
      /\ Orderly(Set!Steps(h), h, setting) /\ Left(Set!Steps(h), "commit")
      /\ \A k \in Stored(h, setting) : Left(Set!Steps(h), k)
      /\ h.partial => Left(Set!Steps(h), "get")
      /\ setting = "gain" => Left(Set!Steps(h), "ram")
  BY <1>7, ProgramsOrderly DEF HandlerKnown
<1>9. Task(v, setting) /\ InHandler(v, setting, setHist'.failed)
  BY <1>4, <1>7, <1>8 DEF Task, InHandler
<1>10. Busy(writer[t]) \/ setHist'.overlap \/ \A u \in Set!Writers : ~Busy(writer[u])
  BY <1>6 DEF Set!Quiet, Busy
<1>11. writer' = [writer EXCEPT ![t] = v]
  BY <1>4
<1> HIDE DEF v
<1>12. /\ SettingFields' /\ Handlers' /\ OneBusy' /\ writer'[t] = v
       /\ \A u \in Set!Writers \ {t} : writer'[u] = writer[u]
  BY <1>1, <1>5, <1>6, <1>9, <1>10, <1>11, TaskMoves
<1>13. /\ writer'[t].todo = Set!Steps(h) /\ writer'[t].new = new /\ writer'[t].chg = given
       /\ ~writer'[t].err /\ writer'[t].handler = h /\ Busy(writer'[t])
  BY <1>8, <1>12 DEF v, Busy
<1>14. Calm(setting, setHist') =>
         Calm(setting, setHist) /\ \A u \in Set!Writers : ~Busy(writer[u])
  BY <1>6 DEF Calm, Set!Quiet, Busy
<1>15. Saved'
  <2> SUFFICES ASSUME Calm(setting, setHist')
               PROVE  /\ \A u \in Set!Writers : Busy(writer'[u]) =>
                           Written(writer'[u], flash, durable, setting)
                      /\ \A j \in KeysOf(setting) :
                           Known(flash[j], j, asked, writer') /\ Known(durable[j], j, asked, writer')
    BY <1>5 DEF Saved
  <2>1. Written(writer'[t], flash, durable, setting)
    BY <1>4, <1>8, <1>13 DEF Written
  <2>2. \A j \in KeysOf(setting) :
          Known(flash[j], j, asked, writer) /\ Known(durable[j], j, asked, writer)
    BY <1>14 DEF SettingsInv, Saved
  <2>3. \A j \in KeysOf(setting) : \A x :
        Known(x, j, asked, writer) => Known(x, j, asked, writer')
    BY <1>14 DEF Known
  <2> QED
    BY <1>12, <1>14, <2>1, <2>2, <2>3
<1>16. GainKept'
  BY <1>5, <1>8, <1>12, <1>13, <1>14 DEF SettingsInv, GainKept
<1>17. Applied'
  <2> SUFFICES ASSUME Followed(setting, setHist'), NEW j \in {"a", "b"}, live[j] # flash[j]
               PROVE  \E u \in Set!Writers : SeenTo(writer'[u], j, setting)
    BY <1>5 DEF Applied
  <2>1. Followed(setting, setHist)
    BY <1>6 DEF Followed
  <2>2. PICK u \in Set!Writers : SeenTo(writer[u], j, setting)
    BY <2>1 DEF SettingsInv, Applied
  <2>3. u # t
    BY <1>5, <2>2, NoneLeft DEF SeenTo
  <2> QED
    BY <1>12, <2>2, <2>3
<1> QED
  BY <1>12, <1>15, <1>16, <1>17 DEF SettingsInv

\* A reset: what was written and not committed may be lost, and is read again.
LEMMA SettingsBooted ==
  ASSUME SettingsInv, Set!Booted,
         setHist' = setHist \/ setHist' = [setHist EXCEPT !.cuts = @ + 1]
  PROVE  SettingsInv'
<1>1. SettingFields /\ Handlers /\ OneBusy
  BY DEF SettingsInv
<1>2. PICK stays \in SUBSET {"a", "b"} :
        flash' = [k \in {"a", "b"} |-> IF k \in stays THEN flash[k] ELSE durable[k]]
  BY DEF Set!Booted
<1>3. /\ durable' = flash' /\ live' = flash' /\ setting' = setting
      /\ writer' = [t \in Set!Writers |-> Set!Idle]
      /\ asked' = [k \in {"a", "b"} |-> asked[k] \union
                     {writer[t].new[k] : t \in {u \in Set!Writers :
                        writer[u].todo # << >> /\ k \in writer[u].chg}}]
  BY DEF Set!Booted
<1>4. /\ setHist'.overlap = setHist.overlap /\ setHist'.failed = setHist.failed
      /\ setHist'.unapplied = setHist.unapplied
      /\ setHist' = [overlap |-> setHist'.overlap, failed |-> setHist'.failed,
                     unapplied |-> setHist'.unapplied, requests |-> setHist'.requests,
                     faults |-> setHist'.faults, cuts |-> setHist'.cuts]
  BY <1>1 DEF SettingFields
<1>5. Set!Idle.todo = << >> /\ Task(Set!Idle, setting)
  BY DEF Set!Idle, Task, Orderly
<1>6. \A t \in Set!Writers : writer'[t] = Set!Idle /\ ~Busy(writer'[t])
  BY <1>3, <1>5 DEF Busy
<1>7. SettingFields'
  BY <1>1, <1>2, <1>3, <1>4, <1>5, <1>6 DEF SettingFields
<1>8. Handlers' /\ OneBusy'
  BY <1>6 DEF Handlers, InHandler, OneBusy, Busy
<1>9. Saved'
  <2> SUFFICES ASSUME Calm(setting, setHist'), NEW j \in KeysOf(setting)
               PROVE  Known(flash'[j], j, asked', writer')
    BY <1>3, <1>6 DEF Saved
  <2>1. j \in {"a", "b"} /\ Calm(setting, setHist)
    BY <1>4 DEF KeysOf, Calm
  <2>2. Known(flash[j], j, asked, writer) /\ Known(durable[j], j, asked, writer)
    BY <2>1 DEF SettingsInv, Saved
  <2>3. flash'[j] \in {flash[j], durable[j]}
    BY <1>2, <2>1
  <2>4. \A x : Known(x, j, asked, writer) => x \in asked'[j]
    BY <1>3, <2>1 DEF Known, Busy
  <2> QED
    BY <2>2, <2>3, <2>4 DEF Known
<1>10. GainKept' /\ Applied'
  BY <1>3, <1>6 DEF GainKept, Applied
<1> QED
  BY <1>7, <1>8, <1>9, <1>10 DEF SettingsInv

LEMMA SettingsStep ==
  ASSUME SettingsInv, Set!Next
  PROVE  SettingsInv'
<1>1. CASE Set!PowerCut
  BY <1>1, SettingsBooted DEF Set!PowerCut
<1>2. ASSUME NEW t \in Set!Writers,
             \/ Set!Request(t) \/ Set!Get(t) \/ Set!SkipUnchanged(t) \/ Set!ApplyRam(t)
             \/ Set!WriteFails(t) \/ Set!ApplyLocal(t) \/ Set!ApplyReread(t) \/ Set!Reply(t)
      PROVE  SettingsInv'
  BY <1>2, SettingsRequest, SettingsGet, SettingsSkip, SettingsRam, SettingsWriteFails,
     SettingsLocal, SettingsReread, SettingsReply
<1>3. ASSUME NEW t \in Set!Writers, Set!Restart(t)
      PROVE  SettingsInv'
  BY <1>3, SettingsBooted DEF Set!Restart
<1>4. ASSUME NEW t \in Set!Writers, Set!Write(t)
      PROVE  SettingsInv'
  <2>1. CASE Set!At(t, "commit") /\ durable' = flash /\ UNCHANGED flash
    BY <1>4, <2>1, SettingsCommit DEF Set!Write
  <2>2. ASSUME NEW k \in {"a", "b"}, Set!At(t, k),
               flash' = [flash EXCEPT ![k] = writer[t].new[k]], UNCHANGED durable
        PROVE  SettingsInv'
    BY <1>4, <2>2, SettingsWrite DEF Set!Write
  <2> QED
    BY <1>4, <2>1, <2>2 DEF Set!Write
<1> QED
  BY <1>1, <1>2, <1>3, <1>4 DEF Set!Next

\* A setting is one value: what was answered, what the flash holds and what the
\* device runs with agree, for requests of any number, failed writes and power
\* cuts (settings.c, and the handlers that call it).
THEOREM SettingIsOneValue == Spec => []SettingsHold
<1>1. Init => SettingsInv
  <2> SUFFICES ASSUME Init  PROVE SettingsInv
    OBVIOUS
  <2>1. /\ setting \in Set!SettingNames /\ flash = [k \in {"a", "b"} |-> 0]
        /\ durable = flash /\ live = flash /\ writer = [t \in Set!Writers |-> Set!Idle]
        /\ asked = [k \in {"a", "b"} |-> {0}]
        /\ setHist = [overlap |-> FALSE, failed |-> FALSE, unapplied |-> FALSE,
                      requests |-> 0, faults |-> 0, cuts |-> 0]
    BY DEF Init, Set!Init
  <2>2. Set!Idle.todo = << >> /\ Task(Set!Idle, setting)
    BY DEF Set!Idle, Task, Orderly
  <2>3. \A t \in Set!Writers : writer[t] = Set!Idle /\ ~Busy(writer[t])
    BY <2>1, <2>2 DEF Busy
  <2>4. SettingFields
    BY <2>1, <2>2, <2>3 DEF SettingFields
  <2>5. Handlers /\ OneBusy
    BY <2>3 DEF Handlers, InHandler, OneBusy, Busy
  <2>6. \A k \in KeysOf(setting) : k \in {"a", "b"}
    BY DEF KeysOf
  <2>7. Saved
    BY <2>1, <2>3, <2>6 DEF Saved, Known
  <2>8. GainKept /\ Applied
    BY <2>1, <2>3 DEF GainKept, Applied
  <2> QED
    BY <2>4, <2>5, <2>7, <2>8 DEF SettingsInv
<1>2. SettingsInv /\ [Next]_vars => SettingsInv'
  <2> SUFFICES ASSUME SettingsInv, [Next]_vars  PROVE SettingsInv'
    OBVIOUS
  <2>1. CASE SettingsNext
    BY <2>1, SettingsStep DEF SettingsNext
  <2>2. CASE UNCHANGED setVars
    BY <2>2 DEF setVars, SettingsInv, SettingFields, Handlers, OneBusy, Saved, GainKept, Applied
  <2> QED
    BY <2>1, <2>2 DEF Next, vars, AuthNext, PlaybackNext, PageNext, DacpNext
<1>3. SettingsInv => SettingsHold
  <2> SUFFICES ASSUME SettingsInv  PROVE SettingsHold
    OBVIOUS
  <2>1. Set!Keys = KeysOf(setting)
    BY DEF Set!Keys, KeysOf
  <2>2. ASSUME Set!Quiet  PROVE \A t \in Set!Writers : ~Busy(writer[t])
    BY <2>2 DEF Set!Quiet, Busy
  <2>3. Set!SavedAsAnswered
    BY <2>1, <2>2 DEF Set!SavedAsAnswered, SettingsInv, Saved, Known, Calm
  <2>4. Set!LiveIsSaved
    <3> SUFFICES ASSUME Set!Quiet, ~setHist.failed, ~setHist.unapplied,
                        setting \notin {"name", "buttons"},
                        setHist.overlap => setting \in {"matrix", "argb", "mqtt", "wifi"},
                        NEW k \in KeysOf(setting)
                 PROVE  live[k] = flash[k]
      BY <2>1 DEF Set!LiveIsSaved
    <3>1. CASE setting = "gain"
      BY <2>2, <3>1 DEF SettingsInv, GainKept, Calm, KeysOf
    <3>2. CASE setting # "gain"
      <4>1. Followed(setting, setHist) /\ k \in {"a", "b"}
        BY <3>2 DEF Followed, KeysOf
      <4>2. \A t \in Set!Writers : ~SeenTo(writer[t], k, setting)
        BY <2>2, NoneLeft DEF SeenTo, Busy
      <4> QED
        BY <4>1, <4>2 DEF SettingsInv, Applied
    <3> QED
      BY <3>1, <3>2
  <2> QED
    BY <2>3, <2>4 DEF SettingsHold, Set!SettingsHold
<1> QED
  BY <1>1, <1>2, <1>3, PTL DEF Spec
=============================================================================
