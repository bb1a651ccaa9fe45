------------------------------- MODULE KuardApp -------------------------------
(***************************************************************************)
(* A kuard process (cmd/kuard, pkg/app): it loads its configuration, opens *)
(* its HTTPS and HTTP ports, and serves requests until it ends, because a  *)
(* port cannot be opened, because the key generator is through, or because *)
(* it is killed.  Kubernetes then starts it again, and nothing is kept.    *)
(*                                                                         *)
(* The requests of three of its pages are components: the memory leaker,   *)
(* the root page and the DNS query.                                        *)
(***************************************************************************)
EXTENDS Handlers

CONSTANTS
  MaxLeaks, MaxEdits, MaxSearch,
  MaxKills, \* bound: how often a process that may be killed is
  Scenarios \* what is asked of which process, and how it is configured

ASSUME KuardAppAssumption ==
  /\ MaxLeaks \in Nat /\ MaxEdits \in Nat /\ MaxSearch \in Nat /\ MaxKills \in Nat
  /\ Scenarios \subseteq [
       page : [Requests -> {"memory", "root", "dns", "none"}], \* what r asks for
       valid : BOOLEAN,  \* every setting is one of Config's
       debug : BOOLEAN,  \* --debug
       killed : BOOLEAN, \* it may be killed
       exits : BOOLEAN,  \* the key generator runs, and exits on completion
       tls : {"none", "half", "good", "bad"}] \* kuard.crt and kuard.key

VARIABLES
  scenario,
  main,  \* where func main is, "down" when the process has ended
  https, \* "off", "starting" in its goroutine, or "open"
  kills  \* how often the process was killed

process == <<main, https, kills>>

VARIABLES leaks, arrays, made, leak, words, todo, corrupt, due, met, mixed

Memory == INSTANCE MemoryLeak

VARIABLES debugTemplates, debugFiles, t, mu, files, dirData, page, disk, edits, during

Root == INSTANCE TemplateGroup

VARIABLES names, asked, result

Dns == INSTANCE DnsQuery

requests == <<pc, answer>>
memory == <<leaks, arrays, made, leak, words, todo, corrupt, due, met, mixed>>
root == <<debugTemplates, debugFiles, t, mu, files, dirData, page, disk, edits, during>>
dns == <<names, asked, result>>
pages == <<memory, root, dns>>
vars == <<scenario, process, requests, pages>>

Init ==
  /\ scenario \in Scenarios
  /\ main = "load" /\ https = "off" /\ kills = 0
  /\ pc = [r \in Requests |-> "idle"]
  /\ answer = [r \in Requests |-> "none"]
  /\ Memory!MemoryInit /\ Root!TemplateInit /\ Dns!DnsInit

-----------------------------------------------------------------------------
(* main, App.LoadConfig and App.Run *)

Main(from, to) == main = from /\ main' = to

\* The process ends, and with it every request that it serves.
Ends ==
  /\ main' = "down" /\ https' = "off"
  /\ answer' = [r \in Requests |-> IF pc[r] = "idle" THEN answer[r] ELSE "cut"]
  /\ pc' = [r \in Requests |-> "idle"]
  /\ Memory!MemoryReset /\ Root!TemplateReset /\ Dns!DnsReset
  /\ UNCHANGED scenario

\* UnmarshalExact panics when it meets a setting it does not know.
LoadFails ==
  /\ main = "load" /\ ~scenario.valid
  /\ Ends /\ UNCHANGED kills

\* The probes and the key generator are configured: its worker may start.
LoadConfig ==
  /\ Main("load", "templates") /\ scenario.valid
  /\ UNCHANGED <<scenario, https, kills, requests, pages>>

ConfigureTemplates ==
  /\ Main("templates", "files")
  /\ Root!SetTemplateConfig(scenario.debug)
  /\ UNCHANGED <<scenario, https, kills, requests, memory, dns>>

ConfigureFiles ==
  /\ Main("files", "run")
  /\ Root!SetFilesConfig(scenario.debug)
  /\ UNCHANGED <<scenario, https, kills, requests, memory, dns>>

\* Both files exist, or cannot be looked at: fileExists.
FindsCerts == scenario.tls \in {"good", "bad"}

\* Run: with certificates HTTPS starts in a goroutine of its own.
Run ==
  /\ Main("run", "listen")
  /\ https' = IF FindsCerts THEN "starting" ELSE "off"
  /\ UNCHANGED <<scenario, kills, requests, pages>>

ListenTLS ==
  /\ https = "starting" /\ scenario.tls = "good"
  /\ https' = "open"
  /\ UNCHANGED <<scenario, main, kills, requests, pages>>

\* The certificates do not load, or the port cannot be opened: log.Fatal ends the
\* process, HTTP and all.
ListenTLSFails ==
  /\ https = "starting"
  /\ Ends /\ UNCHANGED kills

Listen ==
  /\ Main("listen", "serve")
  /\ UNCHANGED <<scenario, https, kills, requests, pages>>

\* The process serves on a port.
Open == main = "serve" \/ https = "open"

\* The port cannot be opened: log.Fatal, with HTTPS running or not.
ListenFails ==
  /\ main = "listen"
  /\ Ends /\ UNCHANGED kills

\* Accept fails for good on one of the ports: the same log.Fatal.
AcceptFails ==
  /\ Open
  /\ Ends /\ UNCHANGED kills

\* The key generator's worker is through: os.Exit, at any time.
KeyGenExits ==
  /\ scenario.exits /\ main \in {"templates", "files", "run", "listen", "serve"}
  /\ Ends /\ UNCHANGED kills

\* Out of memory, evicted, or not live.
Kill ==
  /\ main # "down" /\ scenario.killed
  /\ kills < MaxKills /\ kills' = kills + 1
  /\ Ends

Restart ==
  /\ Main("down", "load")
  /\ UNCHANGED <<scenario, https, kills, requests, pages>>

-----------------------------------------------------------------------------
(* Requests *)

\* A request arrives; the router of NewApp finds its handler.
Arrive(r) ==
  /\ Open
  /\ \/ /\ scenario.page[r] = "memory" /\ Memory!MemoryBegin(r)
        /\ UNCHANGED <<root, dns>>
     \/ /\ scenario.page[r] = "root" /\ Root!Come(r)
        /\ UNCHANGED <<memory, dns>>
     \/ /\ scenario.page[r] = "dns" /\ Dns!DnsBegin(r)
        /\ UNCHANGED <<memory, root>>
  /\ UNCHANGED <<scenario, process>>

\* The goroutine of a request takes a step.
Serve(r) ==
  /\ \/ Memory!MemoryStep(r) /\ UNCHANGED <<root, dns>>
     \/ Root!TemplateStep(r) /\ UNCHANGED <<memory, dns>>
     \/ Dns!Exchange(r) /\ UNCHANGED <<memory, root>>
  /\ UNCHANGED <<scenario, process>>

Edit ==
  /\ scenario.debug
  /\ Root!Edit
  /\ UNCHANGED <<scenario, process, memory, dns>>

Start ==
  \/ LoadFails \/ LoadConfig \/ ConfigureTemplates \/ ConfigureFiles \/ Run
  \/ Listen \/ ListenFails \/ Restart

Next ==
  \/ Start \/ ListenTLS \/ ListenTLSFails \/ AcceptFails \/ KeyGenExits \/ Kill \/ Edit
  \/ \E r \in Requests : Arrive(r) \/ Serve(r)

Spec == Init /\ [][Next]_vars

\* Goroutines are scheduled, a mutex that is free again and again is got, and a
\* pod that ended is restarted.  Nobody has to ask, to edit or to kill, and Accept
\* need not fail.
Fairness ==
  /\ WF_vars(Start) /\ WF_vars(ListenTLS \/ ListenTLSFails)
  /\ \A r \in Requests : SF_vars(Serve(r))

FairSpec == Spec /\ Fairness

-----------------------------------------------------------------------------
(* Properties *)

\* Type correctness.
TypeOK ==
  /\ main \in {"load", "templates", "files", "run", "listen", "serve", "down"}
  /\ https \in {"off", "starting", "open"}
  /\ kills \in 0..MaxKills
  /\ answer \in [Requests -> {"none", "ok", "refused", "error", "panic", "cut"}]
  /\ Memory!MemoryTypeOK /\ Root!TemplateTypeOK /\ Dns!DnsTypeOK

\* The leaker holds the leaks it acknowledged, once no two requests overlap
\* (MemoryLeak), also in a process that was started again.
LeaksHeld == Memory!LeaksHeld

\* The root page comes from the binary or the current directory, as configured
\* (TemplateGroup): no request sees templates from before SetConfig.
PageIsCurrent == Root!PageIsCurrent

\* A request for the root page panics only for a missing file (TemplateGroup).
PanicNeedsMissing == Root!PanicNeedsMissing

\* A DNS query is decided by the first name with an answer or an error (DnsQuery).
FirstAnswerWins == Dns!FirstAnswerWins

\* Every request is answered, dropped or cut: neither a panic nor a page that
\* went away leaves one that waits for ever.
Answered == \A r \in Requests : pc[r] # "idle" ~> pc[r] = "idle"
=============================================================================
