---- MODULE MCGitRepoScan ----
(* A repository and its revisions. *)
EXTENDS GitRepoScan

\* Revision 2 adds a loose blob, so the packs stay as they are; revision 3 is a
\* force push that drops blob 2, and revision 4 brings it back beside one that
\* cannot be decoded.
Revisions == <<{1, 2, 3}, {1, 2, 3, 6}, {1, 4}, {1, 2, 4, 5}>>
Packs == <<1, 1, 2, 3>>

\* Revision 2 adds a loose blob, revision 3 is a force push to other packs.
MovingRevisions == <<{1}, {1, 2}, {3}>>
MovingPacks == <<1, 1, 2>>

\* One revision.
OneRevision == <<{1, 2}>>
OnePack == <<1>>
====
