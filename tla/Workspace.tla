----------------------------- MODULE Workspace -----------------------------
(***************************************************************************)
(* A patch artifact, from its preview on the owner's screen to the file it *)
(* changes (kin.artifacts.preview, kin.artifacts.workspace).  Applying a   *)
(* unified diff is modelled as the function of the code, line by line; the *)
(* program that made the diff is outside.                                  *)
(***************************************************************************)
EXTENDS Naturals, Sequences
LOCAL INSTANCE SequencesExt

CONSTANTS
    TextLines,      \* lines of a file
    MaxScript,      \* lines of an edit script
    ContextSizes,   \* context lines around a change
    MaxEdits        \* changes of the file by somebody else

ASSUME WorkspaceAssumption == MaxScript \in Nat /\ MaxEdits \in Nat

Ops == {"keep", "delete", "insert"}
EditScripts == {s \in BoundedSeq([op : Ops, line : TextLines], MaxScript) :
                \E i \in DOMAIN s : s[i].op # "keep"}

\* A text is its lines, and whether the last one ends with a newline.
EmptyText == [lines |-> <<>>, eol |-> FALSE]
LinesOf(script, ops) ==
    LET some == SelectSeq(script, LAMBDA e : e.op \in ops)
    IN [i \in DOMAIN some |-> some[i].line]
OldLines(script) == LinesOf(script, {"keep", "delete"})
NewLines(script) == LinesOf(script, {"keep", "insert"})
-----------------------------------------------------------------------------
(* The diff, as difflib and the diff program write it: a hunk holds the    *)
(* lines within c lines of a change.  Its start counts old lines from one; *)
(* for a hunk without old lines it names the line before it.               *)

UnifiedDiff(script, c) ==
    LET near == {i \in DOMAIN script : \E j \in DOMAIN script :
                  script[j].op # "keep" /\ i <= j + c /\ j <= i + c}
        first == {i \in near : i - 1 \notin near}
        LastOf(i) == CHOOSE j \in near : i <= j /\ i..j \subseteq near /\ j + 1 \notin near
        Hunk(i) ==
            LET body == SubSeq(script, i, LastOf(i))
                before == Len(OldLines(SubSeq(script, 1, i - 1)))
            IN [o_start |-> IF OldLines(body) = <<>> THEN before ELSE before + 1,
                body |-> body]
        starts == SetToSortSeq(first, <)
    IN [k \in DOMAIN starts |-> Hunk(starts[k])]

\* A hunk that only inserts, with no line around it to say where.
Unanchored(hunks) == \E k \in DOMAIN hunks : OldLines(hunks[k].body) = <<>>
                                             /\ hunks[k].o_start # 0
-----------------------------------------------------------------------------
(* apply_unified_patch.  idx is orig_idx: the old lines consumed so far.   *)

\* Copies the old lines before the target; it stops at the end of the file.
CopyUpTo(acc, old, target) ==
    LET upto == IF target < Len(old) THEN target ELSE Len(old)
    IN IF acc.idx < upto
       THEN [acc EXCEPT !.out = @ \o SubSeq(old, acc.idx + 1, upto), !.idx = upto]
       ELSE acc

ApplyLine(acc, e, old) ==
    LET matches == acc.idx < Len(old) /\ old[acc.idx + 1] = e.line
    IN IF ~ acc.ok THEN acc
       ELSE IF e.op = "insert" THEN [acc EXCEPT !.out = Append(@, e.line)]
       ELSE IF ~ matches THEN [acc EXCEPT !.ok = FALSE]
       ELSE IF e.op = "delete" THEN [acc EXCEPT !.idx = @ + 1]
       ELSE [acc EXCEPT !.out = Append(@, e.line), !.idx = @ + 1]

\* Faulty variant: the start of a hunk is taken as an index from zero.
ApplyHunkFromZero(acc, hunk, old) ==
    FoldLeft(LAMBDA a, e : ApplyLine(a, e, old), CopyUpTo(acc, old, hunk.o_start), hunk.body)

ApplyHunk(acc, hunk, old) ==
    LET target == IF hunk.o_start > 0 THEN hunk.o_start - 1 ELSE 0
    IN FoldLeft(LAMBDA a, e : ApplyLine(a, e, old), CopyUpTo(acc, old, target), hunk.body)

\* Joining no lines gives the empty text; a text that ended with a newline ends
\* with one again, even when nothing is left of it.
JoinLines(out, original) ==
    CASE original # EmptyText /\ original.eol /\ out = <<>> -> [lines |-> <<"">>, eol |-> TRUE]
      [] original # EmptyText /\ original.eol /\ out # <<>> -> [lines |-> out, eol |-> TRUE]
      [] OTHER -> [lines |-> out, eol |-> FALSE]

Mismatch == [error |-> "InvalidPatchArtifactError"]

apply_unified_patch(original, hunks) ==
    LET done == FoldLeft(LAMBDA acc, h : ApplyHunk(acc, h, original.lines),
                         [idx |-> 0, out |-> <<>>, ok |-> TRUE], hunks)
        rest == SubSeq(original.lines, done.idx + 1, Len(original.lines))
    IN IF hunks = <<>> \/ ~ done.ok THEN Mismatch
       ELSE JoinLines(done.out \o rest, original)
-----------------------------------------------------------------------------
(* What the screen shows of an artifact.                                   *)

Archives == {"application/zip"}
DiffTypes == {"text/x-diff"}

\* generate_preview: the kind of the preview, by the first test that holds.
generate_preview(a) ==
    IF a.policy = "deny" \/ a.mime \in Archives \/ ~ a.utf8 THEN "metadata_only"
    ELSE IF a.mime \in DiffTypes \/ a.looks_like_diff THEN "diff"
    ELSE IF a.mime = "application/json" /\ a.parses THEN "json"
    ELSE IF a.mime = "text/csv" /\ a.parses THEN "csv"
    ELSE IF a.mime = "text/markdown" THEN "markdown"
    ELSE "text"

\* preview_patch_apply takes whatever is a diff by type or by its looks.
IsPatch(a) == a.utf8 /\ (a.mime \in DiffTypes \/ a.looks_like_diff)

Documents == [policy : {"auto", "deny"}, utf8 : BOOLEAN, looks_like_diff : {FALSE},
              parses : BOOLEAN, script : {<<>>}, context : {0},
              mime : {"application/zip", "application/json", "text/csv",
                      "text/markdown", "text/plain"}]
Patches == [policy : {"auto"}, utf8 : {TRUE}, looks_like_diff : {TRUE}, parses : {FALSE},
            script : EditScripts, context : ContextSizes, mime : {"text/plain"}]

VARIABLES
    artifact,    \* the artifact the owner has selected
    original,    \* the text its diff was made from
    file,        \* the file in the workspace
    screen,      \* the preview that is shown
    applying,    \* apply_patch_to_workspace: what it read and what it will write
    edits

workspaceVars == <<artifact, original, file, screen, applying, edits>>

NothingShown == [kind |-> "nothing"]
NotApplying == [pc |-> "no"]

WorkspaceInit ==
    /\ artifact \in Documents \cup Patches
    /\ original \in [lines : {OldLines(artifact.script)},
                     eol : IF OldLines(artifact.script) = <<>> THEN {FALSE} ELSE BOOLEAN]
    /\ file = original
    /\ screen = NothingShown
    /\ applying = NotApplying
    /\ edits = 0

\* get_artifact_preview: a bounded preview of the artifact itself.
ShowPreview ==
    /\ screen = NothingShown
    /\ screen' = [kind |-> generate_preview(artifact)]
    /\ UNCHANGED <<artifact, original, file, applying, edits>>

PatchedFile(text) ==
    IF IsPatch(artifact)
    THEN apply_unified_patch(text, UnifiedDiff(artifact.script, artifact.context))
    ELSE Mismatch

\* The owner asks for the patch to be applied.  The confirmation shows what it
\* would make of the file, or a placeholder when it cannot be applied.
AskToApply ==
    /\ screen.kind # "confirm"
    /\ screen' = [kind |-> "confirm", shown |-> PatchedFile(file)]
    /\ UNCHANGED <<artifact, original, file, applying, edits>>

\* The owner confirms.  The file is read again and the patch applied to what it
\* holds now; a patch that does not fit is an error, and nothing is written.
BeginApply ==
    /\ screen.kind = "confirm"
    /\ applying = NotApplying
    /\ applying' = [pc |-> IF PatchedFile(file) = Mismatch THEN "refused" ELSE "write",
                    read |-> file, result |-> PatchedFile(file)]
    /\ UNCHANGED <<artifact, original, file, screen, edits>>

\* _atomic_write_file, once the policy has allowed the write.
WriteFile ==
    /\ applying.pc = "write"
    /\ file' = applying.result
    /\ applying' = [applying EXCEPT !.pc = "done"]
    /\ UNCHANGED <<artifact, original, screen, edits>>

\* Somebody else edits the file.
EditFile ==
    /\ edits < MaxEdits
    /\ applying.pc # "done"
    /\ edits' = edits + 1
    /\ \/ \E l \in TextLines : file' = [file EXCEPT !.lines = <<l>> \o @]
       \/ file.lines # <<>> /\ file' = [file EXCEPT !.lines = Tail(@)]
    /\ UNCHANGED <<artifact, original, screen, applying>>

WorkspaceNext == ShowPreview \/ AskToApply \/ BeginApply \/ WriteFile \/ EditFile

WorkspaceSpec == WorkspaceInit /\ [][WorkspaceNext]_workspaceVars
-----------------------------------------------------------------------------
WorkspaceTypeOK ==
    /\ artifact \in Documents \cup Patches
    /\ edits \in 0..MaxEdits
    /\ applying.pc \in {"no", "refused", "write", "done"}

\* A diff that is applied to the text it was made from is never refused, and
\* makes of it the text it was made for, with the old ending of the last line:
\* apply_unified_patch is the inverse of the diff program, for every pair of
\* texts and any number of context lines.  Two cases are excepted: a hunk that
\* only inserts, has no context and is not at the start of the file (the code
\* puts it one line early), and a file of which nothing is left (the code
\* leaves an empty line).
PatchRoundTrip ==
    LET hunks == UnifiedDiff(artifact.script, artifact.context)
        target == NewLines(artifact.script)
    IN IsPatch(artifact) /\ ~ Unanchored(hunks) =>
         /\ applying.pc = "refused" => applying.read # original
         /\ applying.pc \in {"write", "done"} /\ applying.read = original =>
               /\ applying.result.eol = original.eol
               /\ applying.result.lines = target \/ target = <<>>
=============================================================================
