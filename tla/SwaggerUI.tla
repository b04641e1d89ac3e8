------------------------------ MODULE SwaggerUI ------------------------------
(***************************************************************************)
(* The documentation page of RegistaDB: main() points Drogon at            *)
(* static/app/docs when ENABLE_SWAGGER_UI says so, a browser loads         *)
(* index.html and what it names, and swagger-initializer.js starts Swagger *)
(* UI on the API's definition.  The server may stop and come back          *)
(* otherwise configured between any two requests of one page.              *)
(*                                                                         *)
(* Drogon, the browser and the two vendored libraries are external.  A     *)
(* Drogon that is told nothing serves files too: those of the working      *)
(* directory whose types it knows by itself.                               *)
(***************************************************************************)
EXTENDS Integers, Sequences

CONSTANTS
  Tabs,         \* browser tabs
  Deployments,  \* where and how the server is started
  MaxTries      \* bound: pages opened or definitions asked for again, per tab

Scripts == {"swagger-ui-bundle.js", "swagger-ui-standalone-preset.js",
            "swagger-initializer.js"}

Styles == {"swagger-ui.css", "index.css"}

Parts == Styles \cup Scripts

Files == {"index.html", "openapi.yaml"} \cup Parts

(* Under which paths a copy of the docs may be had; the first is the one announced. *)
Docs == "/app/docs/"

Prefixes == {Docs, "/static/app/docs/"}

DefinitionUrl_Static == [prefix |-> "/static/app/docs/", file |-> "openapi.yaml"]

(* The one absolute path; all others are relative to the page. *)
DefinitionUrl == [prefix |-> Docs, file |-> "openapi.yaml"]

(* setFileTypes, and the types that Drogon serves without it. *)
FileTypes == {"html", "js", "css", "yaml", "json", "png", "txt"}

DefaultTypes == {"html", "js", "css", "xml", "xsl", "txt", "svg", "ttf", "otf", "woff2", "woff",
                 "eot", "png", "jpg", "jpeg", "gif", "bmp", "ico", "icns"}

FileType(f) ==
  CASE f = "index.html" -> "html"
    [] f \in Styles -> "css"
    [] f = "openapi.yaml" -> "yaml"
    [] OTHER -> "js"

(* The candidates for the document root, in the order in which main() tries them. *)
Paths == <<"/app/static", "./static", "../static", "../../static", "../../../static">>

(* Drogon's own document root, "./". *)
Default == 0

Roots == Default .. Len(Paths)

(* The docs below each root. *)
ASSUME DocsAssumption ==
  /\ Deployments \subseteq [env : {"unset", "true", "1", "false"},
                            holds : [Roots -> SUBSET Files]]
  /\ Deployments # {}
  /\ MaxTries \in Nat

VARIABLES
  up,          \* Drogon is running
  deployment,  \* the environment and the directories main() finds
  root,        \* Drogon's document root
  stage,       \* of the page in each tab
  place,       \* the path it was opened under
  fetched,     \* what index.html names: asked for, received or refused
  tries,       \* counter of the bound
  outage       \* history: since the page's last request the docs were not always offered

serverVars == <<up, deployment, root>>
pageVars == <<stage, place, fetched>>
vars == <<serverVars, pageVars, tries, outage>>

Stages == {"closed", "opening", "unreachable", "loading", "blank",
           "fetching", "failed", "shown"}

DocsTypeOK ==
  /\ up \in BOOLEAN
  /\ deployment \in Deployments
  /\ root \in Roots
  /\ stage \in [Tabs -> Stages]
  /\ place \in [Tabs -> Prefixes]
  /\ fetched \in [Tabs -> [Parts -> {"wanted", "got", "lost"}]]
  /\ tries \in [Tabs -> 0 .. MaxTries]
  /\ outage \in [Tabs -> BOOLEAN]

-----------------------------------------------------------------------------
(* The server. *)

Enabled(d) == d.env \in {"true", "1"}

(* The first candidate that holds an index.html; nothing else is looked at. *)
Candidates(d) == {i \in 1 .. Len(Paths) : "index.html" \in d.holds[i]}

First(I) == CHOOSE i \in I : \A j \in I : i <= j

FindRoot_IgnoreFlag(d) == IF Candidates(d) = {} THEN Default ELSE First(Candidates(d))

FindRoot_PastEnd(d) ==
  IF ~Enabled(d) THEN Default
  ELSE IF Candidates(d) = {} THEN Len(Paths) + 1
  ELSE First(Candidates(d))

FindRoot_Last(d) ==
  IF ~Enabled(d) \/ Candidates(d) = {} THEN Default
  ELSE CHOOSE i \in Candidates(d) : \A j \in Candidates(d) : j <= i

(* Drogon keeps its root and its file types unless one is found. *)
FindRoot(d) ==
  IF ~Enabled(d) \/ Candidates(d) = {} THEN Default ELSE First(Candidates(d))

(* The default root may hold one of the candidates, "./static". *)
Held(prefix) ==
  IF prefix = Docs THEN deployment.holds[root]
  ELSE IF root = Default THEN deployment.holds[2]
  ELSE {}

Serves(prefix, f) ==
  /\ up
  /\ f \in Held(prefix)
  /\ FileType(f) \in (IF root = Default THEN DefaultTypes ELSE FileTypes)

(* The docs are enabled and the first copy of them that there is has no gap. *)
Offered ==
  /\ up /\ Enabled(deployment)
  /\ \E i \in 1 .. Len(Paths) :
       /\ deployment.holds[i] = Files
       /\ \A j \in 1 .. i - 1 : "index.html" \notin deployment.holds[j]

Start ==
  /\ ~up
  /\ up' = TRUE
  /\ deployment' \in Deployments
  /\ root' = FindRoot(deployment')
  /\ UNCHANGED <<pageVars, tries, outage>>

Stop ==
  /\ up
  /\ up' = FALSE
  /\ outage' = [p \in Tabs |-> TRUE]
  /\ UNCHANGED <<deployment, root, pageVars, tries>>

-----------------------------------------------------------------------------
(* The page. *)

Try(p) ==
  /\ tries[p] < MaxTries
  /\ tries' = [tries EXCEPT ![p] = @ + 1]
  /\ outage' = [outage EXCEPT ![p] = ~Offered]
  /\ UNCHANGED serverVars

(* The user opens or reloads the page, whatever it is doing. *)
Open(p) ==
  /\ Try(p)
  /\ stage' = [stage EXCEPT ![p] = "opening"]
  /\ \E prefix \in Prefixes : place' = [place EXCEPT ![p] = prefix]
  /\ fetched' = [fetched EXCEPT ![p] = [f \in Parts |-> "wanted"]]

AnswerDocument(p) ==
  /\ stage[p] = "opening"
  /\ stage' = [stage EXCEPT ![p] =
                 IF Serves(place[p], "index.html") THEN "loading" ELSE "unreachable"]
  /\ UNCHANGED <<serverVars, place, fetched, tries, outage>>

(* What the document names is fetched in any order; what cannot be had is skipped. *)
AnswerPart(p, f) ==
  /\ stage[p] = "loading" /\ fetched[p][f] = "wanted"
  /\ fetched' = [fetched EXCEPT ![p][f] = IF Serves(place[p], f) THEN "got" ELSE "lost"]
  /\ UNCHANGED <<serverVars, stage, place, tries, outage>>

(***************************************************************************)
(* The initializer only sets window.onload, which needs what the two other *)
(* scripts define, and which runs when there is nothing left to fetch.     *)
(***************************************************************************)
LoadEvent(p) ==
  /\ stage[p] = "loading"
  /\ \A f \in Parts : fetched[p][f] # "wanted"
  /\ stage' = [stage EXCEPT ![p] =
                 IF \A f \in Scripts : fetched[p][f] = "got" THEN "fetching" ELSE "blank"]
  /\ UNCHANGED <<serverVars, place, fetched, tries, outage>>

(* Swagger UI fetches its url and shows the definition or an error. *)
AnswerDefinition(p) ==
  /\ stage[p] = "fetching"
  /\ stage' = [stage EXCEPT ![p] =
                 IF Serves(DefinitionUrl.prefix, DefinitionUrl.file) THEN "shown" ELSE "failed"]
  /\ UNCHANGED <<serverVars, place, fetched, tries, outage>>

(* The top bar of StandaloneLayout, through the plugin DownloadUrl. *)
Explore(p) ==
  /\ stage[p] \in {"failed", "shown"}
  /\ Try(p)
  /\ stage' = [stage EXCEPT ![p] = "fetching"]
  /\ UNCHANGED <<place, fetched>>

PageStep(p) ==
  \/ AnswerDocument(p)
  \/ \E f \in Parts : AnswerPart(p, f)
  \/ LoadEvent(p)
  \/ AnswerDefinition(p)

Init ==
  /\ up = FALSE
  /\ deployment \in Deployments
  /\ root = Default
  /\ stage = [p \in Tabs |-> "closed"]
  /\ place = [p \in Tabs |-> Docs]
  /\ fetched = [p \in Tabs |-> [f \in Parts |-> "wanted"]]
  /\ tries = [p \in Tabs |-> 0]
  /\ outage = [p \in Tabs |-> FALSE]

Next ==
  \/ Start
  \/ Stop
  \/ \E p \in Tabs : Open(p) \/ PageStep(p) \/ Explore(p)

Fairness == \A p \in Tabs : WF_vars(PageStep(p))

DocsSpec == Init /\ [][Next]_vars /\ Fairness

-----------------------------------------------------------------------------
(***************************************************************************)
(* A page that is opened where main() announces it (main.cpp:134) and that *)
(* cannot be had, stays empty or shows no definition was loaded while the  *)
(* docs were not offered: no order in which its parts arrive, no file type *)
(* and no choice of the root breaks it by itself.                          *)
(***************************************************************************)
BrokenOnlyAfterOutage ==
  \A p \in Tabs :
    place[p] = Docs /\ stage[p] \in {"unreachable", "blank", "failed"} => outage[p]

(***************************************************************************)
(* Drogon's defaults may serve the page of a server that was not told to   *)
(* offer the docs, but never the API's definition: no page shows it, under *)
(* whichever path and by whichever earlier life of the server it was       *)
(* loaded.                                                                 *)
(***************************************************************************)
ShownOnlyIfEnabled ==
  [][\A p \in Tabs :
       stage[p] = "fetching" /\ stage'[p] = "shown" => Enabled(deployment)]_vars

(***************************************************************************)
(* A page that is opened where main() announces it is shown, if the docs   *)
(* are offered from then on and the server answers each request.           *)
(***************************************************************************)
OfferedIsShown ==
  \A p \in Tabs :
    [](stage[p] = "opening" /\ [](Offered /\ place[p] = Docs) => <>(stage[p] = "shown"))
=============================================================================
