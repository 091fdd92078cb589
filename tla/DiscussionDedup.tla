--------------------------- MODULE DiscussionDedup ---------------------------
(***************************************************************************)
(* How the proxy folds repeated discussion rows out of a request before it *)
(* forwards it, src/proxy/discussion_dedup.go.                             *)
(*                                                                         *)
(* A request carries the results of the tools the agent called, in order.  *)
(* A result is a text; the model keeps its lines, as records [kind, id]:   *)
(*                                                                         *)
(*   header   the title only the discussion tools write                    *)
(*   head     a line that starts with the id of a row: a block begins      *)
(*   preview, whole, cut   the lines of a row's content                    *)
(*   mark     the placeholder that stands for a block shown before         *)
(*   blank    an empty line                                                *)
(*                                                                         *)
(* "wrapped" says that codex encoded the result twice, and "exact" that    *)
(* Go encodes the text of such a result to the bytes codex sent (it does   *)
(* not when the text holds <, > or &).                                     *)
(***************************************************************************)
EXTENDS Integers, Sequences, SequencesExt

NoId == 0
Blank == [kind |-> "blank", id |-> NoId]
Header == [kind |-> "header", id |-> NoId]
Line(kind, id) == [kind |-> kind, id |-> id]

Has(lines, kinds) == \E k \in DOMAIN lines : lines[k].kind \in kinds

(* isDiscussionResult: the tool's header and a "disc-" somewhere. *)
IsDiscussionResult(v) == Has(v.lines, {"header"}) /\ Has(v.lines, {"head", "mark", "cut"})

-----------------------------------------------------------------------------
(* dedupeTextWithSeen: st carries the lines written, the block being read, *)
(* its id, the ids shown so far and how many blocks were folded.           *)

IsText(ln) == ln.kind # "blank"

(* Mutant: one line too many is trimmed. *)
TrimOneMore(rows) == SubSeq(rows, 1, SelectLastInSeq(rows, IsText) - 1)

TrimTrailingEmpty(rows) == SubSeq(rows, 1, SelectLastInSeq(rows, IsText))

(* Mutant: the id of a block that is kept is not remembered. *)
FlushForgets(st) ==
    [st EXCEPT !.out = @ \o (IF st.id = NoId THEN st.block ELSE TrimTrailingEmpty(st.block)),
               !.block = <<>>, !.id = NoId]

(* Mutant: the last showing is kept, the first one is folded. *)
FlushKeepsLater(st) ==
    LET block == IF st.id = NoId THEN st.block ELSE TrimTrailingEmpty(st.block)
        fold  == st.id # NoId /\ st.id \notin st.seen
    IN  [out |-> st.out \o (IF fold THEN <<Line("mark", st.id)>> ELSE block),
         seen |-> st.seen \cup ({st.id} \ {NoId}),
         dups |-> IF fold THEN st.dups + 1 ELSE st.dups,
         block |-> <<>>, id |-> NoId]

Flush(st) ==
    LET block == IF st.id = NoId THEN st.block ELSE TrimTrailingEmpty(st.block)
        fold  == st.id \in st.seen
    IN  [out |-> st.out \o (IF fold THEN <<Line("mark", st.id)>> ELSE block),
         seen |-> st.seen \cup ({st.id} \ {NoId}),
         dups |-> IF fold THEN st.dups + 1 ELSE st.dups,
         block |-> <<>>, id |-> NoId]

DedupeLine(st, ln) ==
    IF ln.kind = "mark"
    THEN [Flush(st) EXCEPT !.out = Append(@, ln)]
    ELSE IF ln.kind = "head"
    THEN [Flush(st) EXCEPT !.block = <<ln>>, !.id = ln.id]
    ELSE [st EXCEPT !.block = Append(@, ln)]

DedupeText(lines, seen) ==
    Flush(FoldLeft(DedupeLine,
                   [out |-> <<>>, block |-> <<>>, id |-> NoId, seen |-> seen, dups |-> 0],
                   lines))

-----------------------------------------------------------------------------
(* DedupeDiscussionContent: only results of the discussion tools are read, *)
(* only a text that held a repeated block is replaced, and a wrapped text  *)
(* whose bytes are not found stays as it is, its ids remembered all the    *)
(* same.  dedupeRequestBody applies it when AIPMC_DEDUP=1, as here.        *)
DedupeValue(acc, v) ==
    LET text  == DedupeText(v.lines, acc.seen)
        keeps == text.dups = 0 \/ (v.wrapped /\ ~v.exact)
    IN  IF ~IsDiscussionResult(v) THEN [acc EXCEPT !.out = Append(@, v)]
        ELSE [out |-> Append(acc.out, IF keeps THEN v ELSE [v EXCEPT !.lines = text.out]),
              seen |-> text.seen]

(* Mutant: the body is read from its end. *)
DedupeBackwards(body) ==
    Reverse(FoldLeft(DedupeValue, [out |-> <<>>, seen |-> {}], Reverse(body)).out)

DedupeRequestBody(body) == FoldLeft(DedupeValue, [out |-> <<>>, seen |-> {}], body).out

=============================================================================
