------------------------------ MODULE ImeSync -------------------------------
(***************************************************************************)
(* The binding between the editor of a wiki page or document (CodeMirror,  *)
(* `view`) and the shared text (this browser's replica, `ytext`): what is  *)
(* typed goes to the shared text, what the peers write comes to the view,  *)
(* and neither happens while an input method composes (yCollabIME.ts).     *)
(***************************************************************************)
EXTENDS Integers, SequencesExt

CONSTANTS
  Chars,
  MaxLen,       \* bound on the length of a text
  MaxPieces,    \* bound on the pieces of a peer's edit
  MaxChanges    \* bound on the places of the user's edit

ASSUME ImeSyncAssumption ==
  /\ MaxLen \in Nat
  /\ MaxPieces \in Nat \ {0}
  /\ MaxChanges \in Nat \ {0}

VARIABLES
  view,         \* the editor's document
  ytext,        \* the shared text
  composing,    \* view.composing
  before        \* history: the view when the composition started

vars == <<view, ytext, composing, before>>

Cut(s, from, to) == SubSeq(s, from + 1, to)

\* s with what is between two offsets replaced.
Splice(s, from, to, insert) ==
  Cut(s, 0, from) \o insert \o Cut(s, to, Len(s))

-----------------------------------------------------------------------------
(* The libraries.                                                          *)

\* CodeMirror: the offsets of all changes are those of the old document; what
\* no change replaces is kept.
Past(changes, i) == IF i = 0 THEN 0 ELSE changes[i].to

Dispatched(doc, changes) ==
  LET built[i \in 0..Len(changes)] ==
        IF i = 0 THEN <<>>
        ELSE built[i - 1] \o Cut(doc, Past(changes, i - 1), changes[i].from)
                          \o changes[i].insert
  IN  built

Dispatch(doc, changes) ==
  Dispatched(doc, changes)[Len(changes)] \o Cut(doc, Past(changes, Len(changes)), Len(doc))

\* Yjs: a delta is read from left to right; what it does not reach is kept.
Consumed(d) == IF d.op = "insert" THEN 0 ELSE d.n

Offsets(delta) ==
  LET at[i \in 0..Len(delta)] == IF i = 0 THEN 0 ELSE at[i - 1] + Consumed(delta[i])
  IN  at

Reach(delta) == Offsets(delta)[Len(delta)]

Applied(text, delta) ==
  LET at == Offsets(delta)
      out[i \in 0..Len(delta)] ==
        IF i = 0 THEN <<>>
        ELSE CASE delta[i].op = "retain" -> out[i - 1] \o Cut(text, at[i - 1], at[i])
               [] delta[i].op = "insert" -> out[i - 1] \o delta[i].text
               [] delta[i].op = "delete" -> out[i - 1]
  IN  out

ApplyDelta(text, delta) ==
  Applied(text, delta)[Len(delta)] \o Cut(text, Reach(delta), Len(text))

Delta ==
  LET piece == [op : {"retain", "delete"}, n : 1..MaxLen]
                 \cup [op : {"insert"}, text : {<<x>> : x \in Chars}]
  IN  UNION {[1..k -> piece] : k \in 1..MaxPieces}

\* The changes of one transaction: in order, and apart from one another.
Changes(doc) ==
  LET change == [from : 0..Len(doc), to : 0..Len(doc),
                 insert : {<<>>} \cup {<<x>> : x \in Chars}]
  IN  {cs \in UNION {[1..k -> change] : k \in 1..MaxChanges} :
         /\ \A i \in DOMAIN cs : cs[i].from <= cs[i].to
         /\ \A i \in DOMAIN cs : i > 1 => cs[i - 1].to < cs[i].from}

-----------------------------------------------------------------------------
(* The binding.                                                            *)

\* applyRemoteDelta: the changes of the view that a delta stands for, when the
\* position is pos[i] after i pieces of it.
ChangesAt(delta, pos) ==
  LET changes[i \in 0..Len(delta)] ==
        IF i = 0 THEN <<>>
        ELSE CASE delta[i].op = "insert" ->
                    Append(changes[i - 1],
                           [from |-> pos[i - 1], to |-> pos[i - 1], insert |-> delta[i].text])
               [] delta[i].op = "delete" ->
                    Append(changes[i - 1],
                           [from |-> pos[i - 1], to |-> pos[i - 1] + delta[i].n, insert |-> <<>>])
               [] OTHER -> changes[i - 1]
  IN  changes

\* Mutant: a deletion does not move the position.
FromDelta_DeleteStays(delta) ==
  LET pos[i \in 0..Len(delta)] ==
        IF i = 0 THEN 0
        ELSE pos[i - 1] + (IF delta[i].op = "retain" THEN delta[i].n ELSE 0)
  IN  ChangesAt(delta, pos)[Len(delta)]

\* The position moves as the delta is read.
FromDelta(delta) == ChangesAt(delta, Offsets(delta))[Len(delta)]

\* update: the changes are made one after another, moved by what the earlier
\* ones have added.
Replayed(text, changes) ==
  LET done[i \in 0..Len(changes)] ==
        IF i = 0 THEN [text |-> text, adj |-> 0]
        ELSE LET c == changes[i]
                 s == done[i - 1]
             IN  [text |-> Splice(s.text, c.from + s.adj, c.to + s.adj, c.insert),
                  adj |-> s.adj + Len(c.insert) - (c.to - c.from)]
  IN  done

Replay(text, changes) == Replayed(text, changes)[Len(changes)].text

\* Mutant: the composition is not looked at.
ShouldSync_Composing(isComposing, fromYjs) == ~fromYjs

\* shouldSyncToYjs, for an update that has changed the document.
ShouldSync(isComposing, fromYjs) == ~fromYjs /\ ~isComposing

\* diffEnds: the longest common prefix, and the longest common suffix of the
\* rest.
CommonStart(a, b) ==
  Max({n \in 0..Min({Len(a), Len(b)}) : \A i \in 1..n : a[i] = b[i]})

CommonEnd(a, b, start) ==
  Max({n \in 0..(Min({Len(a), Len(b)}) - start) :
         \A i \in 1..n : a[Len(a) - i + 1] = b[Len(b) - i + 1]})

\* Mutant: the suffix may run into the prefix.
DiffEnds_Overlap(a, b) ==
  LET start == CommonStart(a, b)
      end   == CommonEnd(a, b, 0)
  IN  [from |-> start, to |-> Len(a) - end, insert |-> Cut(b, start, Len(b) - end)]

DiffEnds(a, b) ==
  LET start == CommonStart(a, b)
      end   == CommonEnd(a, b, start)
  IN  [from |-> start, to |-> Len(a) - end, insert |-> Cut(b, start, Len(b) - end)]

-----------------------------------------------------------------------------

Init ==
  /\ view = <<>>
  /\ ytext = <<>>
  /\ composing = FALSE
  /\ before = <<>>

\* The user types, pastes or deletes, in one place or with several cursors.
Edit ==
  \E changes \in Changes(view) :
    /\ view' = Dispatch(view, changes)
    /\ Len(view') <= MaxLen
    /\ ytext' = IF ShouldSync(composing, FALSE) THEN Replay(ytext, changes) ELSE ytext
    /\ UNCHANGED <<composing, before>>

\* A peer's edit reaches this replica: the observer writes it to the view,
\* which calls update in turn.
Remote ==
  \E delta \in Delta :
    LET text    == ApplyDelta(ytext, delta)
        changes == FromDelta(delta) IN
    /\ Reach(delta) <= Len(ytext)
    /\ Len(text) <= MaxLen
    /\ IF composing
       THEN ytext' = text /\ UNCHANGED view
       ELSE /\ view' = Dispatch(view, changes)
            /\ ytext' = IF ShouldSync(composing, TRUE) THEN Replay(text, changes) ELSE text
    /\ UNCHANGED <<composing, before>>

CompositionStart ==
  /\ ~composing
  /\ composing' = TRUE
  /\ before' = view
  /\ UNCHANGED <<view, ytext>>

\* compositionend: flushLocalToYtext.
CompositionEnd ==
  LET d == DiffEnds(ytext, view) IN
  /\ composing
  /\ composing' = FALSE
  /\ before' = <<>>
  /\ ytext' = Splice(ytext, d.from, d.to, d.insert)
  /\ UNCHANGED view

Next == Edit \/ Remote \/ CompositionStart \/ CompositionEnd

Spec == Init /\ [][Next]_vars

-----------------------------------------------------------------------------
(* Properties.                                                             *)

\* Outside a composition the editor shows the shared text, whatever mixture of
\* edits in several places, deltas and composed text has led there.
Converged == composing \/ view = ytext

\* Nothing is sent while the input method composes (README.md): until the
\* composition ends, what the user types does not change the shared text, and
\* what the peers write does not change the view.
ApartWhileComposing ==
  [][composing /\ composing' => view' = view \/ ytext' = ytext]_vars

\* "diffEnds replaces only the composed middle" (lib/imeDiff.test.ts): the end
\* of a composition takes no more out of the shared text than the composition
\* took out of the view.
ReplacesTheComposed ==
  [][composing /\ ~composing' =>
       LET sent     == DiffEnds(ytext, view)
           composed == DiffEnds(before, view)
       IN  sent.to - sent.from <= composed.to - composed.from]_vars
=============================================================================
