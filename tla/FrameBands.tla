---- MODULE FrameBands ----
(***************************************************************************)
(* The device's renderer and its display thread.  The renderer draws a     *)
(* frame as a sequence of bands into two buffers in turn; the display      *)
(* thread sends a submitted band to the panel and gives the buffer back    *)
(* through a completion.  The two run interleaved on one processor and     *)
(* share two bounded queues.                                               *)
(*                                                                         *)
(* Frames are named modulo 3: one frame can be on the panel, one in        *)
(* transfer and one being drawn.  Pixels are named by the frame and the    *)
(* band they belong to; Scribble is a buffer half drawn over.              *)
(***************************************************************************)
EXTENDS Naturals, Sequences

CONSTANTS BandMax,      \* bands of a frame: HEIGHT / BAND_ROWS, rounded up
          RequestMax    \* capacity of display_requests and display_completions

\* 240 rows make 8 bands of 32, and a queue has a place for each buffer; with one band
\* a frame, or one place, FramesAreWhole does not hold.
ASSUME BandAssumption ==
  /\ BandMax \in Nat /\ BandMax >= 2
  /\ RequestMax \in Nat /\ RequestMax >= 2

VARIABLES
  renderer,     \* rust_main: where it is, what it shows, the band it is at
  ownership,    \* BufferOwnership: the buffer rendered and those in flight
  pending,      \* PendingFrame of each buffer
  pixels,       \* what each buffer holds
  transfers, returned,       \* the two message queues
  display,      \* display_entry: where it is, its request, expected_y, frame_failed
  panel,        \* the frame each band of the panel shows
  observed      \* the last stage, fault and frame reported in the heartbeat

bandVars == <<renderer, ownership, pending, pixels, transfers, returned,
              display, panel, observed>>

Buffer == {0, 1}
Band == 1..BandMax
Picture == 0..2
None == 2                       \* no buffer
Scribble == <<3, 0>>            \* pixels of no one band
NoTransfer == [buffer |-> None, band |-> 0]

BandsInit ==
  /\ renderer = [at |-> "loop", shows |-> "shell", frame |-> 0, band |-> 1,
                 back |-> 0, enabled |-> FALSE]
  /\ ownership = [rendering |-> None, inflight |-> [b \in Buffer |-> FALSE]]
  /\ pending = [b \in Buffer |-> [final |-> FALSE, frame |-> 0]]
  /\ pixels = [b \in Buffer |-> Scribble]
  /\ transfers = <<>> /\ returned = <<>>
  /\ display = [at |-> "waiting", request |-> NoTransfer, expected |-> 1, failed |-> FALSE]
  /\ panel = [b \in Band |-> 3]
  /\ observed = [stage |-> "Rendering", fault |-> "None", frame |-> 0]

-----------------------------------------------------------------------------
(* The renderer *)

\* Every fault is reported once and rust_main returns.
RendererFails(fault) ==
  /\ renderer' = [renderer EXCEPT !.at = "failed"]
  /\ observed' = [observed EXCEPT !.stage = "Failed", !.fault = fault]

\* The top of the loop: the snapshot decides between the shell and the world.
\* A snapshot that is stable and malformed, or a world texture that cannot be
\* captured, ends the renderer.
LoopBegins ==
  /\ renderer.at = "loop"
  /\ \/ \E shows \in {"shell", "world"} :
          /\ renderer' = [renderer EXCEPT !.at = "frame", !.shows = shows]
          /\ UNCHANGED observed
     \/ \E fault \in {"SharedSnapshot", "RenderSkipped"} : RendererFails(fault)
  /\ UNCHANGED <<ownership, pending, pixels, transfers, returned, display, panel>>

\* Framebuffer::take_completion for the completion at the head of the queue.
take_completion ==
  LET done == Head(returned) IN
  /\ returned # <<>>
  /\ returned' = Tail(returned)
  /\ IF ~done.ok \/ ~ownership.inflight[done.buffer]
     THEN RendererFails("Completion") /\ UNCHANGED ownership
     ELSE /\ ownership' = [ownership EXCEPT !.inflight[done.buffer] = FALSE]
          /\ observed' = IF pending[done.buffer].final
                         THEN [stage |-> "Presented", fault |-> "None",
                               frame |-> pending[done.buffer].frame]
                         ELSE observed
          /\ UNCHANGED renderer
  /\ UNCHANGED <<pending, pixels, transfers, display, panel>>

\* publish_completions: before a frame, and while the shell waits for its next one.
publish_completions ==
  /\ \/ renderer.at = "frame"
     \/ renderer.at = "paced" /\ renderer.shows = "shell" /\ renderer.enabled
  /\ take_completion

begin_frame ==
  /\ renderer.at = "frame" /\ returned = <<>>
  /\ renderer' = [renderer EXCEPT !.at = "band", !.band = 1]
  /\ observed' = [observed EXCEPT !.stage = "Rendering"]
  /\ UNCHANGED <<ownership, pending, pixels, transfers, returned, display, panel>>

\* begin_band waits for the buffer it wants, a second for each completion.
AwaitsBuffer ==
  /\ renderer.at = "band" /\ ownership.inflight[renderer.back]
  /\ take_completion

\* Mutant of WaitTimesOut: the wait has no limit.
WaitsForever ==
  /\ renderer.at = "band" /\ ownership.inflight[renderer.back] /\ returned = <<>>
  /\ UNCHANGED bandVars

WaitTimesOut ==
  /\ renderer.at = "band" /\ ownership.inflight[renderer.back] /\ returned = <<>>
  /\ RendererFails("Completion")
  /\ UNCHANGED <<ownership, pending, pixels, transfers, returned, display, panel>>

\* Whether begin_band may go on to BufferOwnership::begin_render.
BufferIsBack == ~ownership.inflight[renderer.back]

begin_band ==
  /\ renderer.at = "band" /\ BufferIsBack
  /\ IF ownership.rendering # None \/ ownership.inflight[renderer.back]
     THEN RendererFails("Ownership") /\ UNCHANGED <<ownership, pixels>>
     ELSE /\ ownership' = [ownership EXCEPT !.rendering = renderer.back]
          /\ pixels' = [pixels EXCEPT ![renderer.back] = Scribble]
          /\ renderer' = [renderer EXCEPT !.at = "raster"]
          /\ UNCHANGED observed
  /\ UNCHANGED <<pending, transfers, returned, display, panel>>

\* Slint skipping a line or a billboard without a texture leaves the band undone.
RenderSkips ==
  /\ renderer.at = "raster"
  /\ RendererFails("RenderSkipped")
  /\ UNCHANGED <<ownership, pending, pixels, transfers, returned, display, panel>>

\* Whether this is the band whose completion presents the frame.
FinalBand(band) == band = BandMax

\* The overlay and the last pixels are drawn, the band is submitted and the
\* buffers change places.  A full queue is a Submit fault.
submit_band ==
  LET full == Len(transfers) >= RequestMax
      last == renderer.band = BandMax
      request == [buffer |-> renderer.back, band |-> renderer.band]
  IN
  /\ renderer.at = "raster"
  /\ pixels' = [pixels EXCEPT ![renderer.back] = <<renderer.frame, renderer.band>>]
  /\ pending' = [pending EXCEPT ![renderer.back] =
                   [final |-> FinalBand(renderer.band), frame |-> renderer.frame]]
  /\ ownership' = [rendering |-> None,
                   inflight |-> [ownership.inflight EXCEPT ![renderer.back] = ~full]]
  /\ IF full
     THEN RendererFails("Submit") /\ UNCHANGED transfers
     ELSE /\ transfers' = Append(transfers, request)
          /\ renderer' = [renderer EXCEPT !.at = IF last THEN "paced" ELSE "band",
                                          !.back = 1 - @, !.band = @ + 1]
          /\ UNCHANGED observed
  /\ UNCHANGED <<returned, display, panel>>

\* After the first frame is submitted the panel is switched on.
display_enable ==
  /\ renderer.at = "paced" /\ ~renderer.enabled
  /\ \/ renderer' = [renderer EXCEPT !.enabled = TRUE] /\ UNCHANGED observed
     \/ RendererFails("DisplayEnable")
  /\ UNCHANGED <<ownership, pending, pixels, transfers, returned, display, panel>>

\* The world goes on at once, the shell at its deadline.
LoopPaced ==
  /\ renderer.at = "paced" /\ renderer.enabled
  /\ renderer' = [renderer EXCEPT !.at = "loop", !.frame = (@ + 1) % 3]
  /\ UNCHANGED <<ownership, pending, pixels, transfers, returned, display, panel, observed>>

-----------------------------------------------------------------------------
(* The display thread *)

\* Mutant of DisplayTakes: the buffer is given back before it has been sent.
DisplayTakesAndCompletes ==
  /\ display.at = "waiting" /\ transfers # <<>> /\ Len(returned) < RequestMax
  /\ display' = [display EXCEPT !.at = "transfer", !.request = Head(transfers),
                                !.failed = @ /\ display.expected # 1]
  /\ transfers' = Tail(transfers)
  /\ returned' = Append(returned, [buffer |-> Head(transfers).buffer, ok |-> TRUE])
  /\ UNCHANGED <<renderer, ownership, pending, pixels, panel, observed>>

DisplayTakes ==
  /\ display.at = "waiting" /\ transfers # <<>>
  /\ display' = [display EXCEPT !.at = "transfer", !.request = Head(transfers),
                                !.failed = @ /\ display.expected # 1]
  /\ transfers' = Tail(transfers)
  /\ UNCHANGED <<renderer, ownership, pending, pixels, returned, panel, observed>>

\* display_write reads the buffer until it returns; a band out of order is not written.
DisplayWrites ==
  LET r == display.request
      inOrder == r.band = display.expected
  IN
  /\ display.at = "transfer"
  /\ \E ok \in {inOrder, FALSE} :
       /\ panel' = IF ok THEN [panel EXCEPT ![r.band] = pixels[r.buffer][1]] ELSE panel
       /\ display' = [display EXCEPT !.at = "completion", !.failed = @ \/ ~ok,
                        !.expected = IF r.band = BandMax THEN 1 ELSE r.band + 1]
  /\ UNCHANGED <<renderer, ownership, pending, pixels, transfers, returned, observed>>

\* The thread waits without limit for room in the completion queue.
DisplayCompletes ==
  /\ display.at = "completion" /\ Len(returned) < RequestMax
  /\ returned' = Append(returned, [buffer |-> display.request.buffer,
                                         ok |-> ~display.failed])
  /\ display' = [display EXCEPT !.at = "waiting", !.request = NoTransfer]
  /\ UNCHANGED <<renderer, ownership, pending, pixels, transfers, panel, observed>>

-----------------------------------------------------------------------------
RendererNext ==
  \/ LoopBegins \/ publish_completions \/ begin_frame \/ AwaitsBuffer \/ WaitTimesOut
  \/ begin_band \/ RenderSkips \/ submit_band \/ display_enable \/ LoopPaced

DisplayNext == DisplayTakes \/ DisplayWrites \/ DisplayCompletes

BandsNext == RendererNext \/ DisplayNext

\* The renderer thread is scheduled; nothing is assumed of the display, whose
\* SPI transfer may hang.
BandsSpec == BandsInit /\ [][BandsNext]_bandVars /\ WF_bandVars(RendererNext)

-----------------------------------------------------------------------------
\* The display never reads a buffer that is being drawn into: while a band is
\* on its way the buffer holds exactly that band (band_buffer.rs, the ownership
\* of the two buffers).
TransferIsWhole ==
  display.at = "transfer" =>
    /\ ownership.rendering # display.request.buffer
    /\ pixels[display.request.buffer] # Scribble
    /\ pixels[display.request.buffer][2] = display.request.band

\* A frame is reported Presented only when every band of it has reached the
\* panel; the bands already replaced belong to the next frame.
PresentedIsWhole ==
  observed.stage = "Presented" =>
    \A b \in Band : panel[b] \in {observed.frame, (observed.frame + 1) % 3}

\* With two buffers the queues always have room and a buffer is free when its
\* turn comes: the Ownership and Submit faults of submit_band and begin_band
\* stay unreachable whatever the interleaving.
NoOwnershipFault == observed.fault \notin {"Ownership", "Submit"}

\* Frames are whole on their way to the panel and on it, and the exchange of the
\* two buffers that keeps them so never runs into its own fault checks.
FramesAreWhole == TransferIsWhole /\ PresentedIsWhole /\ NoOwnershipFault

\* Every frame that was begun is presented, itself, or the renderer reports why
\* it stopped, even when the display hangs in a transfer.
PresentsOrFails ==
  \A f \in Picture :
    (renderer.at = "band" /\ renderer.frame = f)
      ~> \/ observed.stage = "Failed"
         \/ observed.stage = "Presented" /\ observed.frame = f
====
