----------------------------- MODULE PatchText -----------------------------
(***************************************************************************)
(* What one patch script does to one source file.  A file is the bag of    *)
(* the passages the scripts look for or write; all other text is left out. *)
(* A script is a sequence of sections, each of which reads a file, edits   *)
(* it in memory and writes it back.                                        *)
(***************************************************************************)
EXTENDS Naturals, Sequences, Bags

\* An edit looks for the passages in "needs" (the anchor), takes one copy of
\* each passage in "takes" out and puts one of each in "puts" in.
Edit(needs, takes, puts) ==
  [when |-> {}, unless |-> {}, excuse |-> {},
   needs |-> needs, takes |-> takes, puts |-> puts]

Need(p) == Edit({p}, {}, {})
Insert(at, new) == Edit({at}, {}, {new})
Replace(old, new) == Edit({old}, {old}, {new})
Wrap(p, wrapper) == Edit({p}, {}, {wrapper})    \* its pattern survives in the result

OnlyIf(p, e) == [e EXCEPT !.when = @ \cup {p}]
Unless(p, e) == [e EXCEPT !.unless = @ \cup {p}]
OrDone(p, e) == [e EXCEPT !.excuse = @ \cup {p}]  \* a missing anchor is fine when p is there
Refuse(p) == OnlyIf(p, Need("never-there"))       \* exit when p is there
IfFound(e) == [e EXCEPT !.when = e.needs]         \* a missing anchor goes unnoticed

Passages(text) == BagToSet(text)
CountIn(p, text) == IF p \in DOMAIN text THEN text[p] ELSE 0

Skipped(text, e) ==
  \/ ~(e.when \subseteq Passages(text))
  \/ e.unless \cap Passages(text) # {}
  \/ e.excuse \cap Passages(text) # {} /\ ~(e.needs \subseteq Passages(text))

Exits(text, e) == ~Skipped(text, e) /\ ~(e.needs \subseteq Passages(text))

Edited(text, e) ==
  IF Skipped(text, e) THEN text
  ELSE (text (-) SetToBag(e.takes)) (+) SetToBag(e.puts)

-----------------------------------------------------------------------------
\* A section works on the file that holds the passages in "find"; without such
\* a file the script exits if it must have one, and goes on otherwise.  It
\* leaves a file that holds its marker alone.
Section(file, edits) ==
  [file |-> file, find |-> {}, must |-> TRUE, marker |-> {}, edits |-> edits]

Finding(ps, s) == [s EXCEPT !.find = ps]
Marked(p, s) == [s EXCEPT !.marker = {p}]
MayLack(s) == [s EXCEPT !.must = FALSE]

Found(text, s) == s.find \subseteq Passages(text)
LeftAlone(text, s) == ~Found(text, s) \/ s.marker \cap Passages(text) # {}

\* The text after the first i edits.
Drafts(text, s) ==
  LET draft[i \in 0 .. Len(s.edits)] ==
        IF i = 0 THEN text ELSE Edited(draft[i - 1], s.edits[i])
  IN  draft

\* Does the section end the script with an error?
Aborts(text, s) ==
  \/ s.must /\ ~Found(text, s)
  \/ /\ ~LeftAlone(text, s)
     /\ \E i \in 1 .. Len(s.edits) : Exits(Drafts(text, s)[i - 1], s.edits[i])

\* What the section writes back when it does not abort.
Rewritten(text, s) ==
  IF LeftAlone(text, s) THEN text ELSE Drafts(text, s)[Len(s.edits)]
=============================================================================
