--------------------------------- MODULE Editor ---------------------------------
(***************************************************************************)
(* The files open in the editor that the controller of the simplified page *)
(* carries (handlers/www/assets/app-simplified.js): files are created      *)
(* under numbered names, selected, closed, saved to the instance, and      *)
(* replaced all at once by three samples.  A file is identified by the     *)
(* order in which it was made; no template in the repository calls these   *)
(* functions yet.                                                          *)
(***************************************************************************)
EXTENDS Integers, Sequences

CONSTANT MaxFilesMade       \* a bound

VARIABLES
    openFiles,      \* records [id, name, isNew, isDirty]
    currentFile,    \* the id of one of them, 0 for null
    fileCounter,
    made            \* how many files were made

vars == <<openFiles, currentFile, fileCounter, made>>

Untitled(n) == <<"Untitled", n>>
Samples == <<"Dockerfile", "docker-compose.yml", "app.py">>

Init == openFiles = <<>> /\ currentFile = 0 /\ fileCounter = 1 /\ made = 0

createNewFile ==
    /\ made < MaxFilesMade /\ made' = made + 1
    /\ openFiles' = Append(openFiles, [id |-> made + 1, name |-> Untitled(fileCounter),
                                       isNew |-> TRUE, isDirty |-> FALSE])
    /\ currentFile' = made + 1 /\ fileCounter' = fileCounter + 1

selectFile(k) == currentFile' = openFiles[k].id /\ UNCHANGED <<openFiles, fileCounter, made>>

(* The neighbour before it becomes the current file, or the new first one. *)
NeighbourAfter(files, k) == IF k > Len(files) THEN 0 ELSE files[k].id
Neighbour(files, k) ==
    IF files = <<>> THEN 0 ELSE files[IF k = 1 THEN 1 ELSE k - 1].id

closeFile(k) ==
    /\ openFiles' = SubSeq(openFiles, 1, k - 1) \o SubSeq(openFiles, k + 1, Len(openFiles))
    /\ currentFile' = IF currentFile = openFiles[k].id THEN Neighbour(openFiles', k) ELSE currentFile
    /\ UNCHANGED <<fileCounter, made>>

(* saveFile sends the file through the terminal, which throws when the     *)
(* socket is not open: the file then stays new and dirty.                  *)
saveFile(k) ==
    /\ currentFile = openFiles[k].id
    /\ openFiles' = [openFiles EXCEPT ![k].isNew = FALSE, ![k].isDirty = FALSE]
    /\ UNCHANGED <<currentFile, fileCounter, made>>

(* An editor changes the file that is selected.                            *)
Edit(k) ==
    /\ currentFile = openFiles[k].id
    /\ openFiles' = [openFiles EXCEPT ![k].isDirty = TRUE]
    /\ UNCHANGED <<currentFile, fileCounter, made>>

createSampleFiles ==
    /\ made + 3 <= MaxFilesMade /\ made' = made + 3
    /\ openFiles' = [k \in 1..3 |-> [id |-> made + k, name |-> <<Samples[k]>>,
                                     isNew |-> FALSE, isDirty |-> FALSE]]
    /\ currentFile' = made + 1 /\ fileCounter' = 4

Next ==
    \/ createNewFile \/ createSampleFiles
    \/ \E k \in DOMAIN openFiles : selectFile(k) \/ closeFile(k) \/ saveFile(k) \/ Edit(k)

-----------------------------------------------------------------------------
(* The current file is one of the open ones, and there is one as long as   *)
(* any is open; no two have one name, so that neither is saved over the    *)
(* other, although the counter is reset.                                   *)
FilesAreApart ==
    /\ currentFile = 0 <=> openFiles = <<>>
    /\ currentFile # 0 => \E k \in DOMAIN openFiles : openFiles[k].id = currentFile
    /\ \A j, k \in DOMAIN openFiles : openFiles[j].name = openFiles[k].name => j = k
=============================================================================
