--------------------------- MODULE MCGitHubSource ---------------------------
(* Issue 1, pull request 2, and pull request 3, which fills the list.       *)
EXTENDS GitHubSource

By(owner, mark) == [owner |-> owner, mark |-> mark]

\* On an issue, which a stranger wrote, the owner's approval and remark, the
\* agent's reply under the owner's name and a stranger's remark; on a pull
\* request the reviewer's verdict, and one that a stranger wrote.
LoopComments == [n \in Number |->
    CASE n = 1 -> {By(TRUE, "approve"), By(TRUE, "none"), By(TRUE, "bot"), By(FALSE, "none")}
      [] n = 2 -> {By(TRUE, "verdict"), By(FALSE, "verdict")}
      [] OTHER -> {}]
=============================================================================
