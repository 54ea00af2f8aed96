---- MODULE MCCodingPipeline ----
(* Two files of the base branch and a path that is not in it; operations that create,
   update, delete and replace, one outside the repository, and a malformed one; test
   commands that rewrite the file the operations leave alone.                    *)
EXTENDS CodingPipeline

MCPaths == {"edited", "other", "new"}
MCInitial == [p \in MCPaths |-> CASE p = "edited" -> <<"a", "b">> [] p = "other" -> <<"o">> [] p = "new" -> Absent]
Anchored_(action, anchor, old, new) ==
    [EditOperation(action, "edited", new) EXCEPT !.anchor_text = anchor, !.expected_old_content = old]
MCOperations ==
    {EditOperation("create_file", "new", <<"c">>),
     EditOperation("create_or_update", "edited", <<"c">>),
     EditOperation("delete_file", "edited", <<>>),
     Anchored_("replace_block", <<"a">>, <<>>, <<"c">>),
     EditOperation("append_to_file", "../outside", <<"c">>),
     EditOperation("validate", "edited", <<>>)}
MCTheirs == <<"t">>
MCMark == "m"
MCTestOutputs == [p \in MCPaths |-> IF p = "other" THEN {<<"r">>} ELSE {}]
MCExecutions == 1..2
====
