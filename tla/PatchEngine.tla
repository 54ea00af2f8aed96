---- MODULE PatchEngine ----
(* services/shared/agentic_lab/patch_engine.py and edit_ops.py: edit operations
   on the files of a working tree, applied in order with a rollback when one of
   them fails. A file is a sequence of lines, or Absent; a line stands for a run
   of lines the operations treat as one, a Python definition among them.
   A fuzzy match, the parser and the file system decide more than lines show, so
   an operation has a set of outcomes: records of `ok`, of the content it leaves,
   and of whether a call to the file system failed.                            *)
EXTENDS Naturals, Sequences, FiniteSetsExt

CONSTANTS Absent,    \* the content of a path where there is no file
          Unreliable \* bound: the files at which calls to the file system may fail

Contents == {Absent} \union Seq(STRING)

WholeFile == {"create_file", "create_or_update"}
Targeted  == {"append_to_file", "replace_symbol_body", "replace_block", "replace_lines",
              "insert_before_anchor", "insert_after_anchor", "delete_block"}
EditAction == WholeFile \union Targeted \union {"delete_file"}

\* An operation of an answer, "validate" for an action there is not; line numbers are positive.
EditOperations ==
    [action : EditAction \union {"validate"}, file_path : STRING, new_content : Seq(STRING), anchor_text : Seq(STRING),
     expected_old_content : Seq(STRING), start_line : Nat \ {0}, end_line : Nat \ {0},
     symbol_name : STRING]

\* An operation with the fields it does not use left empty.
EditOperation(action, path, new) ==
    [action |-> action, file_path |-> path, new_content |-> new, anchor_text |-> <<>>,
     expected_old_content |-> <<>>, start_line |-> 1, end_line |-> 1, symbol_name |-> ""]

Left(content) == [ok |-> TRUE, content |-> content, fault |-> FALSE]
Refused(content) == [ok |-> FALSE, content |-> content, fault |-> FALSE]
Failed(content) == [ok |-> FALSE, content |-> content, fault |-> TRUE]

\* What a write that fails may leave of a content: opening the file emptied it.
Torn(content) == IF content = Absent THEN {} ELSE {SubSeq(content, 1, n) : n \in 0..Len(content)}

\* The content with `count` lines from position `at` on replaced by `new`.
Splice(content, at, count, new) ==
    SubSeq(content, 1, at - 1) \o new \o SubSeq(content, at + count, Len(content))

(* Where an anchor may be found: at its first exact occurrence; otherwise where
   the similarity of the lines says, which may be nowhere.                     *)
ExactAnchors(content, anchor) ==
    {i \in 1..(Len(content) - Len(anchor) + 1) : SubSeq(content, i, i + Len(anchor) - 1) = anchor}
FuzzyFindAnchor(content, anchor) ==
    IF anchor = <<>> \/ Len(anchor) > Len(content) THEN {}
    ELSE IF ExactAnchors(content, anchor) # {} THEN {Min(ExactAnchors(content, anchor))}
    ELSE 1..(Len(content) - Len(anchor) + 1)
MayMiss(content, anchor) ==
    anchor = <<>> \/ Len(anchor) > Len(content) \/ ExactAnchors(content, anchor) = {}

\* The lines an anchored replacement consumes: it counts the old content, and never compares it.
ConsumedLines(op) == Len(IF op.expected_old_content # <<>> THEN op.expected_old_content ELSE op.anchor_text)

AnchoredAt(content, op, i) ==
    CASE op.action = "replace_block" -> Splice(content, i, ConsumedLines(op), op.new_content)
      [] op.action = "delete_block" -> Splice(content, i, ConsumedLines(op), <<>>)
      [] op.action = "insert_before_anchor" -> Splice(content, i, 0, op.new_content)
      [] op.action = "insert_after_anchor" -> Splice(content, i + Len(op.anchor_text), 0, op.new_content)

Anchored(content, op) ==
    {Left(AnchoredAt(content, op, i)) : i \in FuzzyFindAnchor(content, op.anchor_text)}
        \union (IF MayMiss(content, op.anchor_text) THEN {Refused(content)} ELSE {})

\* A range is cut at the end of the file, and one that ends just before its start inserts.
ReplaceLines(content, op) ==
    LET first == op.start_line - 1
        last == Min({op.end_line, Len(content)})
    IN  IF first >= Len(content) \/ first > last THEN {Refused(content)}
        ELSE {Left(Splice(content, op.start_line, last - first, op.new_content))}

ReplaceSymbol(content, op) ==
    LET found == ExactAnchors(content, <<op.symbol_name>>)
    IN  IF found = {} THEN {Refused(content)}
        ELSE {Left(Splice(content, Min(found), 1, op.new_content))}

\* An operation on the content of its file, as long as the file system answers.
Performed(content, op) ==
    CASE op.action \in WholeFile -> {Left(op.new_content)}
      [] op.action \notin WholeFile /\ content = Absent -> {Refused(content)}
      [] op.action = "delete_file" /\ content # Absent -> {Left(Absent)}
      [] op.action = "append_to_file" /\ content # Absent -> {Left(content \o op.new_content)}
      [] op.action = "replace_lines" /\ content # Absent -> ReplaceLines(content, op)
      [] op.action = "replace_symbol_body" /\ content # Absent -> ReplaceSymbol(content, op)
      [] OTHER -> Anchored(content, op)

\* _apply_single_operation: a call that fails leaves the file, or part of what was written.
ApplySingleOperation(content, op) ==
    Performed(content, op)
        \union (IF op.file_path \notin Unreliable THEN {}
                ELSE {Failed(c) : c \in {content} \union
                                        UNION {Torn(o.content) : o \in Performed(content, op)}})

(* A run of a plan so far, with the tree it has made and the files at which a call
   failed, and one more operation; a path that is not one of the tree's is refused. *)
Step(r, op) ==
    IF op.file_path \notin DOMAIN r.tree THEN {[r EXCEPT !.ok = FALSE]}
    ELSE {[ok |-> o.ok, tree |-> [r.tree EXCEPT ![op.file_path] = o.content],
           faulty |-> r.faulty \union (IF o.fault THEN {op.file_path} ELSE {})] :
             o \in ApplySingleOperation(r.tree[op.file_path], op)}
Extend(runs, op) == {r \in runs : ~r.ok} \union UNION {Step(r, op) : r \in {x \in runs : x.ok}}

Snapshotted_TargetedOnly(plan) ==
    {plan[i].file_path : i \in {n \in 1..Len(plan) : plan[n].action \in Targeted}}
\* Only files of operations that neither create nor delete are in the snapshot.
Snapshotted(plan) ==
    {plan[i].file_path :
        i \in {n \in 1..Len(plan) : plan[n].action \notin {"create_file", "delete_file"}}}

(* What _rollback makes of a file of the snapshot, `old` before the plan and `now`
   after it: it was not readable then, and is deleted; or it cannot be restored. *)
Restored(p, old, now) ==
    {[content |-> old, fault |-> FALSE]}
        \union (IF p \notin Unreliable THEN {}
                ELSE {[content |-> c, fault |-> TRUE] : c \in {Absent, now} \union Torn(old)})
Rollback(before, r, plan) ==
    LET saved == Snapshotted(plan) \intersect DOMAIN before
        left == {f \in [saved -> UNION {Restored(p, before[p], r.tree[p]) : p \in saved}] :
                    \A p \in saved : f[p] \in Restored(p, before[p], r.tree[p])}
    IN  {[ok |-> FALSE,
          tree |-> [p \in DOMAIN before |-> IF p \in saved THEN f[p].content ELSE r.tree[p]],
          faulty |-> r.faulty \union {p \in saved : f[p].fault}] : f \in left}

\* The runs of a plan, which takes its operations one after the other.
RunsOf(before, plan) ==
    LET after[n \in 0..Len(plan)] ==
            IF n = 0 THEN {[ok |-> TRUE, tree |-> before, faulty |-> {}]}
            ELSE Extend(after[n - 1], plan[n])
    IN  after[Len(plan)]

\* Every way a plan can end on a tree: all of it applied, or rolled back at the first failure.
ApplyEditPlan(before, plan) ==
    LET runs == RunsOf(before, plan)
    IN  {r \in runs : r.ok} \union UNION {Rollback(before, r, plan) : r \in {x \in runs : ~x.ok}}

\* _parse_operations: operations that fail validation are dropped, the rest go on.
ParseOperations(raw) ==
    LET parsed[n \in 0..Len(raw)] ==
            IF n = 0 THEN <<>>
            ELSE IF raw[n].action \in EditAction THEN Append(parsed[n - 1], raw[n]) ELSE parsed[n - 1]
    IN  parsed[Len(raw)]
====
