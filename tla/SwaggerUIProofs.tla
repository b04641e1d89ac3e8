--------------------------- MODULE SwaggerUIProofs ---------------------------
(***************************************************************************)
(* Theorems about SwaggerUI, for any number of tabs and tries and for any  *)
(* set of deployments.                                                     *)
(***************************************************************************)
EXTENDS SwaggerUI, TLAPS

(* How far a page has come whose requests all met a server that offers the docs. *)
PageSound(p) ==
  stage[p] # "closed" /\ place[p] = Docs /\ ~outage[p] =>
    /\ Offered
    /\ stage[p] \in {"opening", "loading", "fetching", "shown"}
    /\ stage[p] \in {"opening", "loading"} => \A f \in Parts : fetched[p][f] # "lost"

DocsInv ==
  /\ DocsTypeOK
  /\ up => root = FindRoot(deployment)
  /\ \A p \in Tabs : PageSound(p)

-----------------------------------------------------------------------------
LEMMA RootsAre == Len(Paths) = 5 /\ Roots = 0 .. 5 /\ Default = 0
BY DEF Paths, Roots, Default

(* The first of some roots is one of them, and before the others. *)
LEMMA FirstIsFirst ==
  ASSUME NEW I \in SUBSET (1 .. 5), NEW i \in I, \A j \in I : i <= j
  PROVE  First(I) = i
<1>1. \E k \in I : \A j \in I : k <= j
  OBVIOUS
<1>2. First(I) \in I /\ \A j \in I : First(I) <= j
  BY <1>1, Zenon DEF First
<1> DEFINE first == First(I)
<1>3. first \in I /\ first <= i /\ i <= first
  BY <1>2
<1> HIDE DEF first
<1>4. first = i
  BY <1>3
<1> QED BY <1>4 DEF first

(* There is a first among the candidates, if there are any. *)
LEMMA FirstExists ==
  ASSUME NEW I \in SUBSET (1 .. 5), I # {}
  PROVE  First(I) \in I
<1>1. \E k \in I : \A j \in I : k <= j
  <2>1. CASE 1 \in I
    BY <2>1
  <2>2. CASE 1 \notin I /\ 2 \in I
    BY <2>2
  <2>3. CASE 1 \notin I /\ 2 \notin I /\ 3 \in I
    BY <2>3
  <2>4. CASE 1 \notin I /\ 2 \notin I /\ 3 \notin I /\ 4 \in I
    BY <2>4
  <2>5. CASE 1 \notin I /\ 2 \notin I /\ 3 \notin I /\ 4 \notin I
    <3>1. \A j \in I : j \in 1 .. 5 /\ j # 1 /\ j # 2 /\ j # 3 /\ j # 4
      BY <2>5
    <3>2. \A j \in I : j = 5
      BY <3>1
    <3>3. 5 \in I
      BY <3>2
    <3> QED BY <3>2, <3>3
  <2> QED BY <2>1, <2>2, <2>3, <2>4, <2>5
<1> QED BY <1>1, Zenon DEF First

LEMMA CandidatesAre == ASSUME NEW d PROVE Candidates(d) \in SUBSET (1 .. 5)
BY RootsAre DEF Candidates

LEMMA RootIsRoot == ASSUME NEW d PROVE FindRoot(d) \in Roots
<1>1. Candidates(d) # {} => First(Candidates(d)) \in Candidates(d)
  BY CandidatesAre, FirstExists
<1> QED BY <1>1, CandidatesAre, RootsAre DEF FindRoot

(* The root that main() finds is the first copy, so an offered file is served. *)
LEMMA OfferedServes ==
  ASSUME DocsTypeOK, up => root = FindRoot(deployment), Offered, NEW f \in Files
  PROVE  Serves(Docs, f)
<1>1. PICK i \in 1 .. Len(Paths) :
        /\ deployment.holds[i] = Files
        /\ \A j \in 1 .. i - 1 : "index.html" \notin deployment.holds[j]
  BY DEF Offered
<1>2. i \in Candidates(deployment)
  BY <1>1 DEF Candidates, Files
<1>3. \A j \in Candidates(deployment) : i <= j
  BY <1>1, RootsAre DEF Candidates
<1>4. First(Candidates(deployment)) = i
  BY <1>2, <1>3, CandidatesAre, FirstIsFirst
<1>5. root = i /\ root # Default
  BY <1>1, <1>2, <1>4, RootsAre DEF Offered, FindRoot
<1>6. FileType(f) \in FileTypes
  BY DEF FileType, FileTypes, Files, Parts, Styles, Scripts
<1> QED BY <1>1, <1>5, <1>6 DEF Serves, Held, Offered

(* Drogon knows no type by itself that the definition has. *)
LEMMA DefaultHidesDefinition ==
  ASSUME Serves(DefinitionUrl.prefix, DefinitionUrl.file)
  PROVE  up /\ root # Default
BY DEF Serves, DefinitionUrl, FileType, Styles, DefaultTypes

-----------------------------------------------------------------------------
(* Each action preserves the invariant. *)
LEMMA ServerPreserves ==
  ASSUME DocsInv, Start \/ Stop
  PROVE  DocsInv'
<1>1. CASE Start
  <2>1. /\ up = FALSE /\ up' = TRUE /\ root' = FindRoot(deployment')
        /\ deployment' \in Deployments /\ UNCHANGED <<pageVars, tries, outage>>
    BY <1>1 DEF Start, DocsInv, DocsTypeOK
  <2>2. root' \in Roots
    BY <2>1, RootIsRoot
  <2>3. FindRoot(deployment)' = FindRoot(deployment')
    BY DEF FindRoot, Candidates, Enabled
  <2>4. \A p \in Tabs : PageSound(p)'
    BY <2>1 DEF DocsInv, PageSound, Offered, pageVars
  <2> QED BY <2>1, <2>2, <2>3, <2>4 DEF DocsInv, DocsTypeOK, pageVars
<1>2. CASE Stop
  BY <1>2 DEF Stop, DocsInv, DocsTypeOK, PageSound, pageVars
<1> QED BY <1>1, <1>2

(* A step of one tab: what remains to show is the tab's own part. *)
LEMMA TabPreserves ==
  ASSUME DocsInv, NEW p \in Tabs, DocsTypeOK', UNCHANGED serverVars, PageSound(p)',
         \A q \in Tabs \ {p} : /\ stage'[q] = stage[q] /\ place'[q] = place[q]
                               /\ fetched'[q] = fetched[q] /\ outage'[q] = outage[q]
  PROVE  DocsInv'
<1>1. (up => root = FindRoot(deployment))' /\ Offered' = Offered
  BY DEF DocsInv, serverVars, FindRoot, Candidates, Enabled, Offered
<1>2. \A q \in Tabs \ {p} : PageSound(q)'
  BY <1>1 DEF DocsInv, PageSound
<1> QED BY <1>1, <1>2 DEF DocsInv

LEMMA UserPreserves ==
  ASSUME DocsInv, NEW p \in Tabs, Open(p) \/ Explore(p)
  PROVE  DocsInv'
<1>0. DocsTypeOK /\ PageSound(p)
  BY DEF DocsInv
<1>1. /\ UNCHANGED serverVars /\ (Offered' <=> Offered)
      /\ tries' \in [Tabs -> 0 .. MaxTries]
  <2>1. UNCHANGED serverVars /\ tries[p] < MaxTries
        /\ tries' = [tries EXCEPT ![p] = tries[p] + 1]
    BY <1>0 DEF Open, Explore, Try
  <2>2. Offered' <=> Offered
    BY <2>1 DEF serverVars, Offered, Enabled
  <2>3. tries' \in [Tabs -> 0 .. MaxTries]
    BY <1>0, <2>1, DocsAssumption DEF DocsTypeOK
  <2> QED BY <2>1, <2>2, <2>3
<1>2. /\ outage' \in [Tabs -> BOOLEAN] /\ (outage'[p] <=> ~Offered)
      /\ \A q \in Tabs \ {p} : outage'[q] = outage[q]
  <2> DEFINE lapse == ~Offered
  <2>1. lapse \in BOOLEAN /\ outage' = [outage EXCEPT ![p] = lapse]
    BY DEF Open, Explore, Try
  <2> HIDE DEF lapse
  <2>2. /\ outage' \in [Tabs -> BOOLEAN] /\ outage'[p] = lapse
        /\ \A q \in Tabs \ {p} : outage'[q] = outage[q]
    BY <1>0, <2>1 DEF DocsTypeOK
  <2> QED BY <2>2 DEF lapse
<1>3. CASE Open(p)
  <2>1. DocsTypeOK'
    BY <1>0, <1>1, <1>2, <1>3 DEF Open, DocsTypeOK, Stages, serverVars
  <2>2. PageSound(p)'
    BY <1>0, <1>1, <1>2, <1>3 DEF Open, DocsTypeOK, PageSound
  <2> QED BY <1>0, <1>1, <1>2, <1>3, <2>1, <2>2, TabPreserves DEF Open, DocsTypeOK
<1>4. CASE Explore(p)
  <2>1. DocsTypeOK'
    BY <1>0, <1>1, <1>2, <1>4 DEF Explore, DocsTypeOK, Stages, serverVars
  <2>2. PageSound(p)'
    BY <1>0, <1>1, <1>2, <1>4 DEF Explore, DocsTypeOK, PageSound
  <2> QED BY <1>0, <1>1, <1>2, <1>4, <2>1, <2>2, TabPreserves DEF Explore, DocsTypeOK
<1> QED BY <1>3, <1>4

LEMMA PagePreserves ==
  ASSUME DocsInv, NEW p \in Tabs, PageStep(p)
  PROVE  DocsInv'
<1>0. /\ DocsTypeOK /\ PageSound(p)
      /\ \A f \in Files : Offered => Serves(Docs, f)
  BY OfferedServes DEF DocsInv
<1>1. /\ UNCHANGED <<serverVars, place, tries, outage>> /\ (Offered' <=> Offered)
  BY DEF PageStep, AnswerDocument, AnswerPart, LoadEvent, AnswerDefinition,
         serverVars, Offered, Enabled
<1>2. CASE AnswerDocument(p) \/ LoadEvent(p) \/ AnswerDefinition(p)
  <2>1. /\ UNCHANGED fetched
        /\ stage' \in [Tabs -> Stages]
        /\ \A q \in Tabs \ {p} : stage'[q] = stage[q]
    BY <1>0, <1>2 DEF AnswerDocument, LoadEvent, AnswerDefinition, DocsTypeOK, Stages
  <2>2. DocsTypeOK'
    BY <1>0, <1>1, <2>1 DEF DocsTypeOK, serverVars
  <2>3. PageSound(p)'
    <3>1. CASE AnswerDocument(p)
      BY <1>0, <1>1, <2>1, <3>1 DEF AnswerDocument, PageSound, DocsTypeOK, Files
    <3>2. CASE LoadEvent(p)
      <4>1. place[p] = Docs /\ ~outage[p] => \A f \in Scripts : fetched[p][f] = "got"
        BY <1>0, <3>2 DEF LoadEvent, PageSound, DocsTypeOK, Parts
      <4> QED BY <1>0, <1>1, <2>1, <3>2, <4>1 DEF LoadEvent, PageSound, DocsTypeOK
    <3>3. CASE AnswerDefinition(p)
      <4>1. Offered => Serves(DefinitionUrl.prefix, DefinitionUrl.file)
        BY <1>0 DEF DefinitionUrl, Files
      <4> QED BY <1>0, <1>1, <2>1, <3>3, <4>1 DEF AnswerDefinition, PageSound, DocsTypeOK
    <3> QED BY <1>2, <3>1, <3>2, <3>3
  <2> QED BY <1>1, <2>1, <2>2, <2>3, TabPreserves
<1>3. ASSUME NEW f \in Parts, AnswerPart(p, f)
      PROVE  DocsInv'
  <2>1. /\ UNCHANGED stage
        /\ fetched' \in [Tabs -> [Parts -> {"wanted", "got", "lost"}]]
        /\ \A q \in Tabs \ {p} : fetched'[q] = fetched[q]
        /\ \A g \in Parts : fetched'[p][g] = "lost" =>
             fetched[p][g] = "lost" \/ (g = f /\ ~Serves(place[p], f))
        /\ stage[p] = "loading"
    <3> DEFINE answer == IF Serves(place[p], f) THEN "got" ELSE "lost"
    <3>1. /\ UNCHANGED stage /\ stage[p] = "loading"
          /\ fetched' = [fetched EXCEPT ![p][f] = answer]
      BY <1>3 DEF AnswerPart
    <3>2. answer \in {"got", "lost"} /\ (answer = "lost" => ~Serves(place[p], f))
      OBVIOUS
    <3> HIDE DEF answer
    <3> DEFINE row == [fetched[p] EXCEPT ![f] = answer]
    <3>3. fetched' = [fetched EXCEPT ![p] = row]
      BY <3>1
    <3>4. /\ fetched[p] \in [Parts -> {"wanted", "got", "lost"}]
          /\ fetched \in [Tabs -> [Parts -> {"wanted", "got", "lost"}]]
      BY <1>0 DEF DocsTypeOK
    <3>5. /\ row \in [Parts -> {"wanted", "got", "lost"}] /\ row[f] = answer
          /\ \A g \in Parts \ {f} : row[g] = fetched[p][g]
      BY <3>2, <3>4
    <3> HIDE DEF row
    <3>6. /\ fetched' \in [Tabs -> [Parts -> {"wanted", "got", "lost"}]]
          /\ \A q \in Tabs \ {p} : fetched'[q] = fetched[q]
          /\ fetched'[p] = row
      BY <3>3, <3>4, <3>5
    <3>7. ASSUME NEW g \in Parts, fetched'[p][g] = "lost"
          PROVE  fetched[p][g] = "lost" \/ (g = f /\ ~Serves(place[p], f))
      BY <3>2, <3>5, <3>6, <3>7
    <3> QED BY <3>1, <3>6, <3>7
  <2>2. DocsTypeOK'
    BY <1>0, <1>1, <2>1 DEF DocsTypeOK, serverVars
  <2>3. PageSound(p)'
    BY <1>0, <1>1, <2>1 DEF PageSound, Files
  <2> QED BY <1>1, <2>1, <2>2, <2>3, TabPreserves
<1> QED BY <1>2, <1>3 DEF PageStep

LEMMA DocsInvariance == DocsSpec => []DocsInv
<1>1. Init => DocsInv
  <2> SUFFICES ASSUME Init PROVE DocsInv
    OBVIOUS
  <2>1. DocsTypeOK
    <3>1. fetched \in [Tabs -> [Parts -> {"wanted", "got", "lost"}]]
      BY DEF Init
    <3>2. outage \in [Tabs -> BOOLEAN]
      BY Zenon DEF Init
    <3>3. stage \in [Tabs -> Stages] /\ place \in [Tabs -> Prefixes]
      BY DEF Init, Stages, Prefixes
    <3>4. root \in Roots
      BY RootsAre DEF Init, Default
    <3>5. up \in BOOLEAN /\ deployment \in Deployments
      BY DEF Init
    <3>6. tries \in [Tabs -> 0 .. MaxTries]
      BY DocsAssumption DEF Init
    <3> QED BY <3>1, <3>2, <3>3, <3>4, <3>5, <3>6 DEF DocsTypeOK
  <2>2. ~up /\ \A p \in Tabs : PageSound(p)
    BY DEF Init, PageSound
  <2> QED BY <2>1, <2>2 DEF DocsInv
<1>2. DocsInv /\ [Next]_vars => DocsInv'
  <2> SUFFICES ASSUME DocsInv, [Next]_vars
               PROVE  DocsInv'
    OBVIOUS
  <2>1. CASE UNCHANGED vars
    <3>1. Offered' = Offered /\ FindRoot(deployment)' = FindRoot(deployment)
      BY <2>1 DEF vars, serverVars, Offered, FindRoot, Candidates, Enabled
    <3> QED BY <2>1, <3>1 DEF vars, serverVars, pageVars, DocsInv, DocsTypeOK, PageSound
  <2> QED BY <2>1, ServerPreserves, UserPreserves, PagePreserves DEF Next
<1> QED BY <1>1, <1>2, PTL DEF DocsSpec

-----------------------------------------------------------------------------
(***************************************************************************)
(* The root that main() settles on is one of the candidates or Drogon's    *)
(* own, and each tab is in a known state, whatever the deployments.        *)
(***************************************************************************)
THEOREM DocsTypeCorrect == DocsSpec => []DocsTypeOK
<1>1. DocsInv => DocsTypeOK
  BY DEF DocsInv
<1> QED BY <1>1, DocsInvariance, PTL

(***************************************************************************)
(* In every deployment, a page at the announced path breaks only if the    *)
(* docs were not offered throughout its load: the order in which its parts *)
(* arrive cannot.                                                          *)
(***************************************************************************)
THEOREM PageLoads == DocsSpec => []BrokenOnlyAfterOutage
<1>1. DocsInv => BrokenOnlyAfterOutage
  BY DEF DocsInv, PageSound, BrokenOnlyAfterOutage
<1> QED BY <1>1, DocsInvariance, PTL

(***************************************************************************)
(* Whatever lies in its working directory, a server that was not told to   *)
(* offer the docs lets no page show the definition: it keeps Drogon's root *)
(* and with it Drogon's file types, which the definition's is none of.     *)
(***************************************************************************)
THEOREM DefinitionNeedsEnabled == DocsSpec => ShownOnlyIfEnabled
<1>1. DocsInv /\ [Next]_vars =>
        [\A p \in Tabs :
           stage[p] = "fetching" /\ stage'[p] = "shown" => Enabled(deployment)]_vars
  <2> SUFFICES ASSUME DocsInv, Next, NEW p \in Tabs,
                      stage[p] = "fetching", stage'[p] = "shown"
               PROVE  Enabled(deployment)
    BY DEF vars
  <2>1. Serves(DefinitionUrl.prefix, DefinitionUrl.file)
    <3>0. stage \in [Tabs -> Stages]
      BY DEF DocsInv, DocsTypeOK
    <3>1. CASE Start \/ Stop
      BY <3>1 DEF Start, Stop, pageVars
    <3>2. ASSUME NEW q \in Tabs, Open(q) \/ Explore(q)
          PROVE  FALSE
      BY <3>0, <3>2 DEF Open, Explore
    <3>3. ASSUME NEW q \in Tabs, PageStep(q)
          PROVE  Serves(DefinitionUrl.prefix, DefinitionUrl.file)
      BY <3>0, <3>3 DEF PageStep, AnswerDocument, AnswerPart, LoadEvent, AnswerDefinition
    <3> QED BY <3>1, <3>2, <3>3 DEF Next
  <2>2. up /\ root # Default
    BY <2>1, DefaultHidesDefinition
  <2> QED BY <2>2 DEF DocsInv, FindRoot
<1> QED BY <1>1, DocsInvariance, PTL DEF DocsSpec, ShownOnlyIfEnabled
=============================================================================
