------------------------------- MODULE Studio -------------------------------
(***************************************************************************)
(* The application studio: the page (studio/app.js) that edits the files   *)
(* of one application and the server (studio/app.py) that keeps them.      *)
(*                                                                         *)
(* The page runs one handler at a time, up to its next await; while a      *)
(* request is under way the user, the timer and other answers go on.  The  *)
(* server does what a request asks when it is answered, in any order.  A   *)
(* text is known by the file it was made for: editing it, parsing it and   *)
(* generating it again do not change that.                                 *)
(***************************************************************************)
EXTENDS Naturals, FiniteSets

CONSTANTS Paths,
          Windows,    \* those of windows, edited by design or as code
          MaxPending  \* requests under way at a time

VARIABLES files,    \* what the server keeps
          fs,       \* currentAppFS
          src, active,  \* currentSrcPath, activeFile
          tabs,     \* openFiles; the user may put them in any order
          mode,     \* the editor that shows: "visual", "code" or "none"
          area,     \* the text in the code editor
          model,    \* the design in the visual editor
          drafts,   \* editorDrafts
          dirty, codeMode,  \* dirtyFiles, and the fileModes that are 'code'
          timer,    \* cppSyncTimer is set
          pending   \* requests under way, with what follows their answer

wvars == <<files, fs, src, active, tabs, mode, area, model, drafts, dirty, codeMode, timer, pending>>
editors == <<src, active, tabs, mode, area, model, codeMode, timer>>

None == "none"
Itself == [p \in Paths |-> p]
Nothing == [op |-> None, path |-> None]

Request(kind, path, content, rest, next) ==
  [kind |-> kind, path |-> path, content |-> content, rest |-> rest, next |-> next]

\* loadAppFilesystem of an application with a design for its first window.
StudioInit ==
  /\ files = Itself /\ fs = Itself /\ src \in Windows /\ model = src /\ timer = TRUE
  /\ active = None /\ tabs = {} /\ mode = "none" /\ area = None /\ drafts = [p \in Paths |-> None]
  /\ dirty = {} /\ codeMode = {} /\ pending = {}

Without(d, paths) == [p \in Paths |-> IF p \in paths THEN None ELSE d[p]]

Idle == Cardinality(pending) < MaxPending

-----------------------------------------------------------------------------
(* activateFile, openProjectFile and openWindowFile.  was is the active    *)
(* file they find, d the drafts, others the requests under way.            *)

KeepText(d, was) == IF was # None /\ mode = "code" THEN [d EXCEPT ![was] = area] ELSE d

ShowCode(d, was, path, open) ==
  /\ tabs' = open \cup {path}
  /\ drafts' = KeepText(d, was) /\ src' = path /\ active' = path /\ mode' = "code"
  /\ area' = IF drafts'[path] # None THEN drafts'[path] ELSE fs[path]
  /\ codeMode' = codeMode \cup ({path} \cap Windows)
  /\ UNCHANGED <<model, timer>>

\* A window is parsed by the server before it is shown by design.
Open(d, was, path, op, open, others) ==
  IF path \in Windows /\ (op = "design" \/ (op = "open" /\ path \notin codeMode))
    THEN /\ pending' = others \cup {Request("parse", path, fs[path], {}, Nothing)}
         /\ active' = was /\ tabs' = open /\ drafts' = d
         /\ UNCHANGED <<src, mode, area, model, codeMode, timer>>
    ELSE ShowCode(d, was, path, open) /\ pending' = others

\* The window becomes the active file before the text of the code editor is
\* kept as the draft of the active file.  Rendering sets the timer.
DesignArrives(r) ==
  /\ r \in pending /\ r.kind = "parse" /\ pending' = pending \ {r}
  /\ src' = r.path /\ active' = r.path /\ tabs' = tabs \cup {r.path} /\ codeMode' = codeMode \ {r.path}
  /\ model' = r.content /\ timer' = TRUE /\ mode' = "visual"
  /\ drafts' = KeepText(drafts, r.path)
  /\ UNCHANGED <<files, fs, area, dirty>>

\* closeFile: so does the next tab.
Close(d, path, others) ==
  LET left == tabs \ {path} IN
  \/ active = path /\ \E next \in left : Open(d, next, next, "open", left, others)
  \/ /\ active = path /\ left = {} /\ active' = None /\ mode' = "none"
     /\ tabs' = left /\ drafts' = d /\ pending' = others
     /\ UNCHANGED <<src, area, model, codeMode, timer>>
  \/ /\ active # path /\ tabs' = left /\ drafts' = d /\ pending' = others
     /\ UNCHANGED <<src, active, mode, area, model, codeMode, timer>>

-----------------------------------------------------------------------------
(* resolveDirtyFiles, and what the user wanted to do *)

Follow(next, d, others) ==
  \/ next.op # "close" /\ Open(d, active, next.path, next.op, tabs, others)
  \/ next.op = "close" /\ Close(d, next.path, others)

\* What a file is saved as.  A text that is nowhere is not saved.
TextOf(d, path) ==
  IF path = active /\ mode = "code" THEN area
  ELSE IF d[path] # None THEN d[path]
  ELSE IF path = active /\ path \in Windows THEN model ELSE None

\* Some of the files are discarded, or have no text; the next one is saved,
\* or the user has been asked about all of them.
Resolve(d, unsaved, rest, next, others) ==
  \E passed \in SUBSET rest :
    /\ dirty' = unsaved \ passed
    /\ \/ passed = rest /\ Follow(next, Without(d, rest), others)
       \/ /\ \E p \in rest \ passed :
               /\ TextOf(d, p) # None
               /\ pending' = others \cup
                    {Request("resolve", p, TextOf(d, p), rest \ (passed \cup {p}), next)}
          /\ drafts' = Without(d, passed) /\ UNCHANGED editors

\* switchFile "open" and openWindowFile "design".
OpenFile(path, op) ==
  /\ Idle /\ (op = "open" => path # active)
  /\ (op = "design" => path \in Windows)
  /\ Resolve(drafts, dirty, IF path # active \/ path \in dirty THEN dirty ELSE {},
             [op |-> op, path |-> path], pending)
  /\ UNCHANGED <<files, fs>>

\* openProjectFile from the tree, of the code of a window: nothing is asked.
OpenCode(path) ==
  /\ Idle /\ path \in Windows /\ Open(drafts, active, path, "code", tabs, pending)
  /\ UNCHANGED <<files, fs, dirty>>

CloseFile(path) ==
  /\ Idle /\ path \in tabs
  /\ Resolve(drafts, dirty, IF path \in dirty THEN dirty ELSE {},
             [op |-> "close", path |-> path], pending)
  /\ UNCHANGED <<files, fs>>

\* save_application_file
Written(r) == files' = [files EXCEPT ![r.path] = r.content]

ResolveGoesOn(r) ==
  /\ r \in pending /\ r.kind = "resolve" /\ Written(r)
  /\ fs' = [fs EXCEPT ![r.path] = r.content]
  /\ Resolve(Without(drafts, {r.path}), dirty \ {r.path}, r.rest, r.next, pending \ {r})

-----------------------------------------------------------------------------
(* Typing, designing, saving, and the timer *)

TypeCode ==
  /\ active # None /\ mode = "code" /\ drafts' = [drafts EXCEPT ![active] = area]
  /\ dirty' = dirty \cup {active}
  /\ UNCHANGED <<files, fs, editors, pending>>

EditDesign ==
  /\ active # None /\ mode = "visual" /\ dirty' = dirty \cup {active} /\ timer' = TRUE
  /\ UNCHANGED <<files, fs, src, active, tabs, mode, area, model, drafts, codeMode, pending>>

\* syncCppFromVisual: only windows are headers here.
Sync ==
  /\ timer /\ Idle /\ timer' = FALSE
  /\ IF src \in Windows
       THEN /\ fs' = [fs EXCEPT ![src] = model]
            /\ pending' = pending \cup {Request("sync", src, model, {}, Nothing)}
       ELSE UNCHANGED <<fs, pending>>
  /\ UNCHANGED <<files, src, active, tabs, mode, area, model, drafts, dirty, codeMode>>

Synced(r) ==
  /\ r \in pending /\ r.kind = "sync" /\ Written(r) /\ pending' = pending \ {r}
  /\ UNCHANGED <<fs, editors, drafts, dirty>>

SaveCurrentFile ==
  /\ Idle /\ LET path == IF active = None THEN src ELSE active IN
       /\ active' = path
       /\ \/ /\ mode = "code" /\ drafts' = [drafts EXCEPT ![path] = area]
             /\ pending' = pending \cup {Request("save", path, area, {}, Nothing)}
          \/ /\ mode # "code" /\ path \in Windows /\ drafts' = drafts
             /\ pending' = pending \cup {Request("save", path, model, {}, Nothing)}
          \/ mode # "code" /\ path \notin Windows /\ UNCHANGED <<drafts, pending>>
  /\ UNCHANGED <<files, fs, src, tabs, mode, area, model, codeMode, timer, dirty>>

\* What the page does with the answer goes to the file that is active by
\* then.  The server parses a window that was saved as code.
SaveArrives(r) ==
  /\ r \in pending /\ r.kind = "save" /\ Written(r) /\ pending' = pending \ {r}
  /\ IF active = None THEN UNCHANGED <<fs, drafts, dirty>>
     ELSE /\ fs' = [fs EXCEPT ![active] = r.content]
          /\ drafts' = Without(drafts, {active}) /\ dirty' = dirty \ {active}
  /\ IF mode = "code" /\ r.path \in Windows THEN model' = r.content /\ timer' = TRUE
     ELSE UNCHANGED <<model, timer>>
  /\ UNCHANGED <<src, active, tabs, mode, area, codeMode>>

\* The server refuses, or cannot parse: an alert, and nothing more.
Fails(r) ==
  /\ r \in pending /\ pending' = pending \ {r}
  /\ UNCHANGED <<files, fs, editors, drafts, dirty>>

StudioNext ==
  \/ \E p \in Paths : OpenCode(p) \/ \E op \in {"open", "design"} : OpenFile(p, op)
  \/ \E p \in Paths : CloseFile(p)
  \/ \E r \in pending : DesignArrives(r) \/ ResolveGoesOn(r) \/ Synced(r) \/ SaveArrives(r) \/ Fails(r)
  \/ TypeCode \/ EditDesign \/ Sync \/ SaveCurrentFile

StudioSpec == StudioInit /\ [][StudioNext]_wvars

-----------------------------------------------------------------------------
\* app.js:162 asks "... has unsaved changes. Save them now?" of a file.  What
\* is then saved in its name is a text of that file.  It is not so: a window
\* opened while code shows gets that code as its draft.
SavesItsChanges == \A r \in pending : r.kind = "resolve" => r.content = r.path
=============================================================================
