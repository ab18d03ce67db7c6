------------------------------ MODULE MCKernel ------------------------------
(* Small instances of Kernel for TLC.                                      *)
EXTENDS Kernel, TLC

\* A thought with one call and a text, and one with two calls and none.
SmallThoughts == {[calls |-> 1, cost |-> 1], [calls |-> 2, cost |-> 0]}

\* Skills and their scores (times ten) for the queries of the goals.
Skills ==
  [review |-> [ask |-> 0, other |-> 5, rev |-> 7],
   revise |-> [ask |-> 0, other |-> 5, rev |-> 7],
   deploy |-> [ask |-> 5, other |-> 0, rev |-> 0]]

Goal(text, tokens, names, path, mentions, long) ==
  [text |-> text, tokens |-> tokens, names |-> names, path |-> path,
   mentions |-> mentions, long |-> long]

\* A short question with a path, a short order to write, and a long goal that
\* mentions skills, one of them by a part of its name.
SmallGoals ==
  {Goal("ask", {"read", "notes"}, {}, TRUE, <<>>, FALSE),
   Goal("ask", {"write", "notes"}, {"apply_patch"}, FALSE, <<"deploy">>, FALSE),
   Goal("other", {"read", "file", "list"}, {}, FALSE, <<"rev", "deploy", "rev">>, TRUE)}

Tool(name, rank, nameTokens, capTokens, risk, source, prefix) ==
  [name |-> name, rank |-> rank, nameTokens |-> nameTokens, descTokens |-> {},
   capTokens |-> capTokens, risk |-> risk, source |-> source, prefix |-> prefix]

Tools ==
  {Tool("apply_patch", 1, {"apply", "patch"}, {"file", "write"}, "high", "builtin", ""),
   Tool("open", 2, {"open"}, {"file", "read"}, "low", "", "builtin"),
   Tool("skill.notes", 3, {"skill", "notes"}, {"read"}, "medium", "", "skill"),
   Tool("time", 4, {"time"}, {}, "low", "builtin", "")}

SmallRegistries == {SetToSeq(Tools), Reverse(SetToSeq(Tools)), <<>>}

=============================================================================
