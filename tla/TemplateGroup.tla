---------------------------- MODULE TemplateGroup ----------------------------
(***************************************************************************)
(* kuard's root page: TemplateGroup (pkg/htmlutils) keeps the parsed       *)
(* templates behind a mutex, sitedata (pkg/sitedata) loads them, from the  *)
(* binary or, in debug mode, from a directory that a developer edits while *)
(* requests are served.                                                    *)
(*                                                                         *)
(* The directory holds the page's template and, while an editor has it     *)
(* open, a swap file that sorts before it.                                 *)
(***************************************************************************)
EXTENDS Handlers

CONSTANT MaxEdits \* bound: how often the directory changes

VARIABLES
  debugTemplates, \* TemplateGroup.debug
  debugFiles,     \* sitedata's debug
  t,       \* the loaded templates: what file has which version, or Nil
  mu,      \* the request that holds the mutex, or Nil
  files,   \* files[r]: the files that r has listed and not read
  dirData, \* dirData[r]: the files that r has read
  page,    \* page[r]: the version of the page that r was given, or Nil
  disk,    \* disk[f]: the version of file f in the directory, or Nil
  edits,   \* how often the directory changed
  during   \* history: during[r]: the directories while r, if it is for the page, runs

config == <<debugTemplates, debugFiles>>
local == <<files, dirData, page>>
directory == <<disk, edits>>
templates == <<config, t, mu, local, directory, during>>

NoFiles == [f \in {} |-> 0]

\* Versions: 0 is in the binary, even ones parse, odd ones do not.
Embedded == [f \in {"index"} |-> 0]
Parses(v) == v % 2 = 0

TemplateInit ==
  /\ debugTemplates = FALSE /\ debugFiles = FALSE
  /\ t = Nil /\ mu = Nil
  /\ files = [r \in Requests |-> <<>>]
  /\ dirData = [r \in Requests |-> NoFiles]
  /\ page = [r \in Requests |-> Nil]
  /\ disk = [f \in {"swap", "index"} |-> IF f = "index" THEN 2 ELSE Nil]
  /\ edits = 0
  /\ during = [r \in Requests |-> {}]

\* A new process, beside the same directory.
TemplateReset ==
  /\ debugTemplates' = FALSE /\ debugFiles' = FALSE
  /\ t' = Nil /\ mu' = Nil
  /\ files' = [r \in Requests |-> <<>>]
  /\ dirData' = [r \in Requests |-> NoFiles]
  /\ page' = [r \in Requests |-> Nil]
  /\ during' = [r \in Requests |-> {}]
  /\ UNCHANGED directory

\* TemplateGroup.SetConfig: no template is kept.
SetTemplateConfig(d) ==
  /\ mu = Nil
  /\ debugTemplates' = d
  /\ t' = Nil
  /\ UNCHANGED <<debugFiles, mu, local, directory, during>>

\* sitedata.SetConfig.
SetFilesConfig(d) ==
  /\ debugFiles' = d
  /\ UNCHANGED <<debugTemplates, t, mu, local, directory, during>>

-----------------------------------------------------------------------------
(* GET / : Render, GetTemplate, LoadTemplates, LoadFilesInDir *)

Come(r) ==
  /\ Begin(r, "lock")
  /\ page' = [page EXCEPT ![r] = Nil]
  /\ during' = [during EXCEPT ![r] = {disk}]
  /\ UNCHANGED <<config, t, mu, files, dirData, directory>>

\* Mutant: templates are loaded once, in debug mode too.
BugMustLoad == t = Nil

MustLoad == t = Nil \/ debugTemplates

Lock(r) ==
  /\ mu = Nil
  /\ Goto(r, "lock", IF MustLoad THEN "list" ELSE "lookup")
  /\ mu' = r
  /\ UNCHANGED <<answer, config, t, local, directory, during>>

\* LoadFilesInDir from the binary.
LoadEmbedded(r) ==
  /\ ~debugFiles
  /\ Goto(r, "list", "parse")
  /\ dirData' = [dirData EXCEPT ![r] = Embedded]
  /\ UNCHANGED <<answer, config, t, mu, files, page, directory, during>>

\* ReadDir: the names in their order.
Listing ==
  (IF disk["swap"] = Nil THEN <<>> ELSE <<"swap">>)
    \o (IF disk["index"] = Nil THEN <<>> ELSE <<"index">>)

\* LoadFilesInDir from the directory: the listing, then each file.
ReadDir(r) ==
  /\ debugFiles
  /\ Goto(r, "list", "load")
  /\ files' = [files EXCEPT ![r] = Listing]
  /\ dirData' = [dirData EXCEPT ![r] = NoFiles]
  /\ UNCHANGED <<answer, config, t, mu, page, directory, during>>

ReadFile(r) ==
  /\ pc[r] = "load" /\ files[r] # <<>>
  /\ LET f == Head(files[r]) IN
       IF disk[f] = Nil
       THEN /\ files' = [files EXCEPT ![r] = <<>>] \* gone: what is left is not read
            /\ UNCHANGED dirData
       ELSE /\ files' = [files EXCEPT ![r] = Tail(@)]
            /\ dirData' = [dirData EXCEPT ![r] =
                 [g \in DOMAIN @ \cup {f} |-> IF g = f THEN disk[f] ELSE @[g]]]
  /\ UNCHANGED <<pc, answer, config, t, mu, page, directory, during>>

AllRead(r) ==
  /\ files[r] = <<>>
  /\ Goto(r, "load", "parse")
  /\ UNCHANGED <<answer, templates>>

\* Mutant: the first file that does not parse ends the loading.
BugParse(r) ==
  /\ Goto(r, "parse", "lookup")
  /\ t' = IF "swap" \in DOMAIN dirData[r] THEN NoFiles ELSE dirData[r]
  /\ dirData' = [dirData EXCEPT ![r] = NoFiles]
  /\ UNCHANGED <<answer, config, mu, files, page, directory, during>>

\* The loaded templates replace the old ones, also when there are fewer; a file
\* that does not parse stays a template that does not execute.
Parse(r) ==
  /\ Goto(r, "parse", "lookup")
  /\ t' = dirData[r]
  /\ dirData' = [dirData EXCEPT ![r] = NoFiles]
  /\ UNCHANGED <<answer, config, mu, files, page, directory, during>>

\* Mutant: a panic leaves the mutex locked.
BugMissing(r) ==
  /\ Finish(r, "lookup", "panic")
  /\ "index" \notin DOMAIN t
  /\ UNCHANGED templates

\* Mutant: GetTemplate tries again until the template is there.
BugMissingRetries(r) ==
  /\ Goto(r, "lookup", "lock")
  /\ "index" \notin DOMAIN t
  /\ mu' = Nil
  /\ UNCHANGED <<answer, config, t, local, directory, during>>

\* The template is not there: GetTemplate panics, and the deferred Unlock runs.
Missing(r) ==
  /\ Finish(r, "lookup", "panic")
  /\ "index" \notin DOMAIN t
  /\ mu' = Nil
  /\ UNCHANGED <<config, t, local, directory, during>>

Lookup(r) ==
  /\ Goto(r, "lookup", "execute")
  /\ "index" \in DOMAIN t
  /\ mu' = Nil
  /\ page' = [page EXCEPT ![r] = t["index"]]
  /\ UNCHANGED <<answer, config, t, files, dirData, directory, during>>

\* A template that did not parse does not execute: 500.
Execute(r) ==
  /\ Finish(r, "execute", IF Parses(page[r]) THEN "ok" ELSE "error")
  /\ UNCHANGED templates

TemplateStep(r) ==
  \/ Lock(r) \/ LoadEmbedded(r) \/ ReadDir(r) \/ ReadFile(r) \/ AllRead(r)
  \/ Parse(r) \/ Missing(r) \/ Lookup(r) \/ Execute(r)

\* The developer saves the page, or removes it; the editor's swap file comes and
\* goes.
Edit ==
  /\ edits < MaxEdits
  /\ edits' = edits + 1
  /\ \/ disk' = [disk EXCEPT !["index"] = IF @ = Nil THEN 3 + edits ELSE Nil]
     \/ disk["index"] # Nil /\ disk' = [disk EXCEPT !["index"] = 3 + edits]
     \/ disk' = [disk EXCEPT !["swap"] = IF @ = Nil THEN 1 ELSE Nil]
  /\ during' = [r \in Requests |-> IF pc[r] = "idle" \/ during[r] = {} THEN during[r]
                                  ELSE during[r] \cup {disk'}]
  /\ UNCHANGED <<pc, answer, config, t, mu, local>>

-----------------------------------------------------------------------------
(* Properties *)

TemplateTypeOK ==
  /\ debugTemplates \in BOOLEAN /\ debugFiles \in BOOLEAN
  /\ mu \in Requests \cup {Nil}
  /\ \A r \in Requests :
       (mu = r) = (pc[r] \in {"list", "load", "parse", "lookup"})
  /\ edits \in 0..MaxEdits

\* What a request is answered with was in the source that kuard is configured
\* with: the binary or, with debug, the directory while the request ran.
PageIsCurrent ==
  \A r \in Requests : page[r] # Nil =>
    IF debugTemplates THEN \E d \in during[r] : d["index"] = page[r] ELSE page[r] = 0

\* A request for the page panics only when, while it ran, the template was
\* missing, or a file that is listed before it went away.
PanicNeedsMissing ==
  \A r \in Requests : answer[r] = "panic" /\ during[r] # {} =>
    \/ \E d \in during[r] : d["index"] = Nil
    \/ \E d, e \in during[r] : d["swap"] # Nil /\ e["swap"] = Nil
=============================================================================
