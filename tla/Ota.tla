-------------------------------- MODULE Ota ---------------------------------
(* Firmware updates: main/network/ota.c and the two handlers of              *)
(* main/network/web_server.c, one for an uploaded image and one that fetches *)
(* a release.  The HTTP task does the whole update in one handler, AirPlay   *)
(* and the wake word are stopped for it, and the power may go at any moment. *)
(* An image is a number of chunks; what flash holds is how many of them are  *)
(* written and whether the image is sound.                                   *)
EXTENDS Naturals, FiniteSets

CONSTANTS Chunks,      \* chunks of an image
          MaxUpdates,  \* updates that are tried
          MaxCuts      \* power cuts

VARIABLES
  flash,    \* the two application slots: chunks written, the image is sound
  bootSlot, \* what the boot loader starts
  running,  \* what it did start
  pending,  \* the running image is new and not yet confirmed
  update,   \* the handler: its step, how it writes, chunks received and
            \* written, and whether the image it is given is sound
  service,  \* the RTSP server runs; the wake word is suspended; a voice
            \* session is active
  otaHist   \* updates and cuts so far; a server that could not be restarted

otaVars == <<flash, bootSlot, running, pending, update, service, otaHist>>

BootSlots == {"a", "b"}
Whole(image) == image.chunks = Chunks /\ image.sound
NoUpdate == [at |-> "none", by |-> "none", got |-> 0, sound |-> FALSE]

Init ==
  /\ flash = [a |-> [chunks |-> Chunks, sound |-> TRUE], b |-> [chunks |-> 0, sound |-> FALSE]]
  /\ bootSlot = "a" /\ running = "a" /\ pending = FALSE
  /\ update = NoUpdate
  /\ service \in [airplay : {TRUE}, suspended : {FALSE}, voice : BOOLEAN]
  /\ otaHist = [updates |-> 0, cuts |-> 0, stopped |-> FALSE]

\* esp_ota_get_next_update_partition
Other == CHOOSE s \in BootSlots : s # running

\* ota_update_handler and ota_latest_handler up to voice_quiesce_for_ota: a
\* size that does not fit is refused before anything is stopped
Request ==
  /\ update.at = "none" /\ otaHist.updates < MaxUpdates
  /\ \E by \in {"buffer", "stream", "release"}, sound \in BOOLEAN :
       update' = [at |-> "quiesce", by |-> by, got |-> 0, sound |-> sound]
  /\ service' = [service EXCEPT !.suspended = TRUE]
  /\ otaHist' = [otaHist EXCEPT !.updates = @ + 1]
  /\ UNCHANGED <<flash, bootSlot, running, pending>>

\* pogvoice_cancel is heard; or the three seconds pass, and the wake word is
\* let go again
VoiceStops ==
  /\ update.at = "quiesce" /\ service.voice
  /\ service' = [service EXCEPT !.voice = FALSE]
  /\ UNCHANGED <<flash, bootSlot, running, pending, update, otaHist>>

QuiesceTimesOut ==
  /\ update.at = "quiesce" /\ service.voice
  /\ service' = [service EXCEPT !.suspended = FALSE]
  /\ update' = NoUpdate
  /\ UNCHANGED <<flash, bootSlot, running, pending, otaHist>>

\* a voice session begins by itself only when the wake word may listen
VoiceBegins ==
  /\ update.at = "none" /\ ~service.suspended /\ ~service.voice
  /\ service' = [service EXCEPT !.voice = TRUE]
  /\ UNCHANGED <<flash, bootSlot, running, pending, update, otaHist>>

\* esp_ota_begin erases the other slot; it refuses while the running image is
\* not confirmed (external)
Erased == [flash EXCEPT ![Other] = [chunks |-> 0, sound |-> FALSE]]

\* rtsp_server_stop, then ota_start_from_http: into memory when there is
\* enough, else straight to flash (ESP_ERR_NO_MEM)
Begin ==
  /\ update.at = "quiesce" /\ ~service.voice
  /\ service' = [service EXCEPT !.airplay = FALSE]
  /\ IF update.by = "buffer"
     THEN update' = [update EXCEPT !.at = "receive"] /\ UNCHANGED flash
     ELSE IF pending THEN update' = [update EXCEPT !.at = "refused"] /\ UNCHANGED flash
     ELSE update' = [update EXCEPT !.at = "write"] /\ flash' = Erased
  /\ UNCHANGED <<bootSlot, running, pending, otaHist>>

\* ota_buffered receives the whole image
Receive ==
  /\ update.at = "receive" /\ update.got < Chunks
  /\ update' = [update EXCEPT !.got = @ + 1]
  /\ UNCHANGED <<flash, bootSlot, running, pending, service, otaHist>>

\* ota_validate_image, then esp_ota_begin
Validate ==
  /\ update.at = "receive" /\ update.got = Chunks /\ update.sound
  /\ IF pending THEN update' = [update EXCEPT !.at = "refused"] /\ UNCHANGED flash
     ELSE update' = [update EXCEPT !.at = "write", !.got = 0] /\ flash' = Erased
  /\ UNCHANGED <<bootSlot, running, pending, service, otaHist>>

\* esp_ota_write of one chunk, from memory or as it arrives
Write ==
  /\ update.at = "write" /\ update.got < Chunks
  /\ update' = [update EXCEPT !.got = @ + 1]
  /\ flash' = [flash EXCEPT ![Other] = [chunks |-> update.got + 1, sound |-> update.sound]]
  /\ UNCHANGED <<bootSlot, running, pending, service, otaHist>>

\* Mutant: the boot slot is set before the image is checked
EndUnchecked == update.got = Chunks

\* esp_ota_end checks the image in flash
End == update.got = Chunks /\ Whole(flash[Other])

\* esp_ota_end and esp_ota_set_boot_partition, then the reply and esp_restart
Finish ==
  /\ update.at = "write" /\ End
  /\ bootSlot' = Other
  /\ update' = [update EXCEPT !.at = "restart"]
  /\ UNCHANGED <<flash, running, pending, service, otaHist>>

\* Mutant: the wake word stays suspended after a failed update
RestoredButWake(ok) == [service EXCEPT !.airplay = ok]

\* what the handlers do when an update failed: rtsp_server_start, which may
\* fail, and pogwake_suspend(false)
Restored(ok) == [service EXCEPT !.airplay = ok, !.suspended = FALSE]

\* any step fails: the connection ends, the image is corrupt, flash refuses
Fail ==
  /\ \/ update.at = "receive" /\ (update.got < Chunks \/ ~update.sound)
     \/ update.at \in {"refused", "write"}
  /\ \E ok \in BOOLEAN :
       /\ service' = Restored(ok)
       /\ otaHist' = [otaHist EXCEPT !.stopped = ~ok]
  /\ update' = NoUpdate
  /\ UNCHANGED <<flash, bootSlot, running, pending>>

\* the boot loader starts a slot; everything but flash is lost.  AirPlay
\* starts with the network.
Booted(slot) ==
  /\ bootSlot' = slot /\ running' = slot
  /\ update' = NoUpdate
  /\ service' = [airplay |-> TRUE, suspended |-> FALSE, voice |-> FALSE]

\* esp_restart: the new image is on trial
Restart ==
  /\ update.at = "restart"
  /\ Booted(bootSlot) /\ pending' = (bootSlot # running)
  /\ otaHist' = [otaHist EXCEPT !.stopped = FALSE]
  /\ UNCHANGED flash

\* app_main reached its end: esp_ota_mark_app_valid_cancel_rollback
Confirm ==
  /\ pending /\ pending' = FALSE
  /\ UNCHANGED <<flash, bootSlot, running, update, service, otaHist>>

\* the power goes, or the image crashes: an image that was on trial is given
\* up for the one before, a new one that was never started goes on trial
PowerCut ==
  /\ otaHist.cuts < MaxCuts
  /\ Booted(IF pending THEN Other ELSE bootSlot)
  /\ pending' = (~pending /\ bootSlot # running)
  /\ otaHist' = [otaHist EXCEPT !.cuts = @ + 1, !.stopped = FALSE]
  /\ UNCHANGED flash

Next ==
  \/ Request \/ VoiceStops \/ QuiesceTimesOut \/ VoiceBegins \/ Begin \/ Receive
  \/ Validate \/ Write \/ Finish \/ Fail \/ Restart \/ Confirm \/ PowerCut

\* Whatever is uploaded and whenever the power goes, the slot the boot loader
\* starts holds a whole, sound image, and so does the one it would go back to
\* while a new image is on trial (ota_buffered, ota_streaming: the boot slot is
\* set last; app_main confirms the image last).
BootsWhole == Whole(flash[bootSlot]) /\ (pending => Whole(flash[Other]))

\* An update that did not happen leaves the device as it was: AirPlay runs,
\* unless it could not be restarted, and the wake word may listen again.
ServicesReturn ==
  update.at = "none" => (service.airplay \/ otaHist.stopped) /\ ~service.suspended

\* No upload, refusal or power cut costs more than the update itself: the
\* device boots and its services are back (ota.c, app_main).
UpdateSafe == BootsWhole /\ ServicesReturn
=============================================================================
