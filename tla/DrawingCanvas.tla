---------------------------- MODULE DrawingCanvas ----------------------------
(***************************************************************************)
(* The shared canvas of one HiTL thread (api/v1/line_drawing.py and        *)
(* core/line_drawing.py): operators draw over WebSockets, every stroke is  *)
(* kept in memory and sent on to the others in the room, one awaited send  *)
(* after another, and a request flattens what there is into an SVG.  One   *)
(* process: a request served by another one finds an empty canvas.  A send *)
(* reaches its client in the order the sends to it were begun.             *)
(***************************************************************************)
EXTENDS Naturals, Sequences, FiniteSets

CONSTANTS
  Artists,      \* ids of sockets, each opened once
  Strokes,      \* the valid strokes there are to draw
  Savers,       \* ids of POST requests, each served once
  MaxStrokes,   \* _MAX_STROKES_PER_DRAWING
  Nobody        \* no frame, no artifact

ASSUME CanvasAssumption ==
  /\ MaxStrokes \in Nat /\ IsFiniteSet(Artists)
  /\ Nobody \notin Strokes /\ "clear" \notin Strokes

VARIABLES
  strokes,   \* DrawingSession.strokes
  room,      \* the sockets in _rooms
  artist,    \* the handlers and what their clients show
  saver,     \* the requests under way
  gallery,   \* the drawings stored: SVG, and its size by artifact and message
  mixed      \* history: who had a clear and a stroke under way to it at once

kvars == <<strokes, room, artist, saver, gallery, mixed>>

-----------------------------------------------------------------------------
\* paper is what the client shows: what it was sent and its own strokes; to
\* are the peers the frame in hand has still to be sent to.
NoArtist == [pc |-> "away", paper |-> <<>>, frame |-> Nobody, to |-> {}]
NoSaver  == [pc |-> "idle", svg |-> <<>>, counted |-> Nobody]

KInit ==
  /\ strokes = <<>> /\ room = {} /\ mixed = {} /\ gallery = {}
  /\ artist = [a \in Artists |-> NoArtist]
  /\ saver = [s \in Savers |-> NoSaver]

\* A handler reads its next frame only when it has sent the last one on.
Listening(a) == artist[a].pc = "open" /\ artist[a].to = {}
SendersTo(p) == {a \in Artists : p \in artist[a].to}
ClearDue(p)  == \E a \in SendersTo(p) : artist[a].frame = "clear"
InkDue(p)    == {artist[a].frame : a \in SendersTo(p)} \ {"clear"}
InUse == UNION {{q[n] : n \in DOMAIN q} : q \in {strokes} \cup {artist[a].paper : a \in Artists}}
           \cup {artist[a].frame : a \in Artists}

-----------------------------------------------------------------------------
\* connect and the hello frame with its snapshot: nothing between them waits.
EnterRoom(a) ==
  /\ artist[a].pc = "away"
  /\ room' = room \cup {a}
  /\ artist' = [artist EXCEPT ![a].pc = "open", ![a].paper = strokes]
  /\ UNCHANGED <<strokes, saver, gallery, mixed>>

\* broadcast: a list of who is in the room now, without the sender of a stroke.
Begun(a, frame, peers) ==
  [artist EXCEPT ![a].frame = IF peers = {} THEN Nobody ELSE frame, ![a].to = peers]

\* A stroke that is valid and not one too many; its author shows it already.
AddStrokeEchoed(a, k) ==   \* mutant: the broadcast does not leave its sender out
  /\ Listening(a) /\ Len(strokes) < MaxStrokes /\ k \notin InUse
  /\ strokes' = Append(strokes, k)
  /\ artist' = [Begun(a, k, room) EXCEPT ![a].paper = Append(@, k)]
  /\ mixed' = mixed \cup {p \in room : ClearDue(p)}
  /\ UNCHANGED <<room, saver, gallery>>
AddStroke(a, k) ==
  /\ Listening(a) /\ Len(strokes) < MaxStrokes /\ k \notin InUse
  /\ strokes' = Append(strokes, k)
  /\ artist' = [Begun(a, k, room \ {a}) EXCEPT ![a].paper = Append(@, k)]
  /\ mixed' = mixed \cup {p \in room : ClearDue(p)}
  /\ UNCHANGED <<room, saver, gallery>>

\* clear, which is sent to everyone.
ClearCanvas(a) ==
  /\ Listening(a)
  /\ strokes' = <<>>
  /\ artist' = Begun(a, "clear", room)
  /\ mixed' = {p \in room : InkDue(p) # {}}
  /\ UNCHANGED <<room, saver, gallery>>

\* One send of a broadcast; a peer it fails for is put out of the room.
SendTo(a, p) ==
  /\ p \in artist[a].to
  /\ LET frame == artist[a].frame
         left  == artist[a].to \ {p}
     IN artist' = [artist EXCEPT
          ![a].to = left,
          ![a].frame = IF left = {} THEN Nobody ELSE @,
          ![p].paper = IF artist[p].pc # "open" \/ frame = "clear" THEN <<>>
                       ELSE Append(@, frame)]
  /\ room' \in IF artist[p].pc = "gone" THEN {room, room \ {p}} ELSE {room}
  /\ UNCHANGED <<strokes, saver, gallery, mixed>>

\* The client goes away; its handler notices when it reads the next frame.
Vanish(a) ==
  /\ artist[a].pc = "open"
  /\ artist' = [artist EXCEPT ![a].pc = "gone", ![a].paper = <<>>]
  /\ UNCHANGED <<strokes, room, saver, gallery, mixed>>
LeaveRoom(a) ==
  /\ artist[a].pc = "gone" /\ artist[a].to = {}
  /\ artist' = [artist EXCEPT ![a].pc = "left"]
  /\ room' = room \ {a}
  /\ UNCHANGED <<strokes, saver, gallery, mixed>>

-----------------------------------------------------------------------------
\* finalize_drawing: 409 without strokes; the SVG is made at once.
BeginSave(s) ==
  /\ saver[s].pc = "idle" /\ strokes # <<>>
  /\ saver' = [saver EXCEPT ![s].pc = "upload", ![s].svg = strokes]
  /\ UNCHANGED <<strokes, room, artist, gallery, mixed>>

SaveEnds(s) == saver' = [saver EXCEPT ![s] = [NoSaver EXCEPT !.pc = "done"]]

UploadSvg(s) ==
  /\ saver[s].pc = "upload"
  /\ \/ saver' = [saver EXCEPT ![s].pc = "attach"]
     \/ SaveEnds(s)      \* the store raises
  /\ UNCHANGED <<strokes, room, artist, gallery, mixed>>

\* The message, and with it the commit; it counts the strokes of the moment.
KeepDrawing(s) ==
  gallery' = gallery \cup {[svg |-> saver[s].svg, artifact |-> saver[s].counted,
                            message |-> Len(strokes)]}

\* The artifact counts them before its flush; without an item there is none.
AttachDrawing(s) ==
  /\ saver[s].pc = "attach"
  /\ \/ /\ saver' = [saver EXCEPT ![s].pc = "message", ![s].counted = Len(strokes)]
        /\ UNCHANGED gallery
     \/ KeepDrawing(s) /\ SaveEnds(s)
  /\ UNCHANGED <<strokes, room, artist, mixed>>
CommitDrawing(s) ==
  /\ saver[s].pc = "message"
  /\ KeepDrawing(s) /\ SaveEnds(s)
  /\ UNCHANGED <<strokes, room, artist, mixed>>

\* The process stops: the canvas, the sockets and the requests are gone.
Restart ==
  /\ \E a \in Artists : artist[a].pc \in {"open", "gone"}
  /\ strokes' = <<>> /\ room' = {} /\ mixed' = {}
  /\ artist' = [a \in Artists |-> IF artist[a].pc = "away" THEN NoArtist
                                  ELSE [NoArtist EXCEPT !.pc = "left"]]
  /\ saver' = [s \in Savers |-> IF saver[s].pc = "idle" THEN NoSaver
                                ELSE [NoSaver EXCEPT !.pc = "done"]]
  /\ UNCHANGED gallery

KNext ==
  \/ Restart
  \/ \E a \in Artists : \/ EnterRoom(a) \/ ClearCanvas(a) \/ Vanish(a) \/ LeaveRoom(a)
                        \/ \E k \in Strokes : AddStroke(a, k)
                        \/ \E p \in Artists : SendTo(a, p)
  \/ \E s \in Savers : BeginSave(s) \/ UploadSvg(s) \/ AttachDrawing(s) \/ CommitDrawing(s)

KSpec == KInit /\ [][KNext]_kvars

-----------------------------------------------------------------------------
ShownTo(a) == {artist[a].paper[n] : n \in DOMAIN artist[a].paper}
OnCanvas    == {strokes[n] : n \in DOMAIN strokes}

\* The types of the variables.
KTypeOK ==
  /\ OnCanvas \subseteq Strokes /\ Len(strokes) <= MaxStrokes
  /\ room \subseteq Artists /\ mixed \subseteq Artists
  /\ \A a \in Artists : /\ artist[a].pc \in {"away", "open", "gone", "left"}
                        /\ artist[a].to \subseteq Artists /\ ShownTo(a) \subseteq Strokes
  /\ \A d \in gallery : d.svg # <<>> /\ d.message \in 0..MaxStrokes

\* Whoever enters while others draw gets every stroke exactly once: what the
\* hello frame showed, what was sent since and what is still to be sent make
\* up the canvas, although no lock joins the replay to the broadcasts.  Only a
\* clear and a stroke under way to the same client spoil it.  And a room holds
\* sockets whose handler is there to leave it.
CanvasIsSound ==
  \A p \in room :
    /\ artist[p].pc \in {"open", "gone"}
    /\ artist[p].pc = "open" /\ p \notin mixed =>
         IF ClearDue(p) THEN strokes = <<>>
         ELSE /\ ShownTo(p) \cup InkDue(p) = OnCanvas
              /\ Len(artist[p].paper) + Cardinality(SendersTo(p)) = Len(strokes)

\* core/line_drawing.py:134-136, a client "can request a resync and see what
\* everyone else has already drawn": when nothing is under way, everyone sees
\* the same.  A stroke that overlaps a clear stays on some canvases.
CanvasesAgree ==
  (\A a \in Artists : artist[a].to = {}) =>
    \A p \in room : artist[p].pc = "open" => ShownTo(p) = OnCanvas

\* api/v1/line_drawing.py:237, POST flattens "the current session": what is
\* stored about a drawing counts the strokes that are in it.  The counts are
\* taken from the session after the upload, when there may be others.
CountsAgree ==
  \A d \in gallery : d.message = Len(d.svg) /\ d.artifact \in {Nobody, Len(d.svg)}
=============================================================================
