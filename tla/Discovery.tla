------------------------------ MODULE Discovery ------------------------------
(***************************************************************************)
(* The discovery daemon (llm-discovery.js), which tests the seed providers,*)
(* compares them with what the endpoints offer and writes providers.json,  *)
(* and the proxy (lib/providers.js), which loads that file whenever it has *)
(* changed.  Models beyond the seed and what the file says of a provider   *)
(* besides its being alive are left out, and so is a scan that takes longer*)
(* than the two hours between scans: none waits for another to end         *)
(* (line 1325), and what the slower one finds would be written last.       *)
(***************************************************************************)
EXTENDS Naturals, FiniteSets

CONSTANTS
  Seeds,
  CatalogOnly,   \* seeds with probe: false, which are not tested
  Endpoints      \* number of endpoints

VARIABLES
  file,          \* providers.json: missing, torn or whole, and what it says
  scan,          \* the daemon's scan
  keyed,         \* seeds whose key is in the daemon's environment
  proxy,         \* the providers it holds alive, its debounce timer
  proven         \* seeds that passed a probe since they were written as dead

discoveryVars == <<file, scan, keyed, proxy, proven>>

Off == [pc |-> "off"]
AllAlive == [p \in Seeds |-> [alive |-> TRUE, tested |-> "never"]]

Init ==
  /\ file = [is |-> "missing", says |-> AllAlive]
  /\ scan = Off
  /\ keyed \in SUBSET Seeds
  /\ proxy = [alive |-> Seeds, timer |-> "none"]
  /\ proven = {}

Alive(says) == {p \in Seeds : says[p].alive}

(* fs.watch of the proxy: another reload is due in half a second *)
Changed == proxy' = [proxy EXCEPT !.timer = "pending"]

(* loadProviders: without a file that can be parsed the seed counts *)
Load ==
  proxy' = [alive |-> IF file.is = "whole" THEN Alive(file.says) ELSE Seeds,
            timer |-> "none"]

Reload == proxy.timer = "pending" /\ Load /\ UNCHANGED <<file, scan, keyed, proven>>
ProxyStarts == Load /\ UNCHANGED <<file, scan, keyed, proven>>

(* main, after generateInitialProvidersFile, and every SCAN_INTERVAL after;
   what is tested is compared with the file as it is now *)
Start ==
  /\ scan.pc = "off" /\ proxy.timer # "pending"
  /\ \/ /\ file.is = "missing"
        /\ file' = [is |-> "whole", says |-> AllAlive] /\ Changed
        /\ UNCHANGED scan
     \/ /\ file.is # "missing"
        /\ scan' = [pc |-> "test", todo |-> Seeds, found |-> AllAlive, left |-> Endpoints,
                    before |-> IF file.is = "whole" THEN file.says ELSE AllAlive]
        /\ UNCHANGED <<file, proxy>>
  /\ UNCHANGED <<keyed, proven>>

(* a test that is recent enough is not repeated: its verdict stands *)
Stands(p) == scan.before[p].tested = "recent"

(* mutant: what need not be tested counts as alive *)
AliveUnlessTested(p) == [alive |-> TRUE, tested |-> scan.before[p].tested]

Standing(p) == scan.before[p]

Verdict(p, ok) ==
  IF p \notin keyed THEN [alive |-> FALSE, tested |-> "no_key"]
  ELSE IF p \in CatalogOnly THEN [alive |-> TRUE, tested |-> "never"]
  ELSE IF Stands(p) THEN Standing(p)
  ELSE [alive |-> ok, tested |-> "recent"]

Test(p) ==
  /\ scan.pc = "test" /\ p \in scan.todo
  /\ \E ok \in BOOLEAN :
       /\ scan' = [scan EXCEPT
            !.todo = @ \ {p},
            !.pc = IF scan.todo = {p} THEN "endpoint" ELSE "test",
            !.found[p] = Verdict(p, ok)]
       /\ proven' = IF ok /\ p \in keyed \ CatalogOnly /\ ~Stands(p)
                    THEN proven \union {p} ELSE proven
  /\ UNCHANGED <<file, keyed, proxy>>

(* an endpoint that cannot be scanned, or says which seeds it has no more;
   with new models the file is written at once *)
Scanned ==
  /\ scan.pc = "endpoint" /\ scan.left > 0
  /\ \/ scan' = [scan EXCEPT !.left = @ - 1]
     \/ \E missing \in SUBSET Seeds, write \in BOOLEAN :
          scan' = [scan EXCEPT
            !.left = @ - 1, !.pc = IF write THEN "write" ELSE @,
            !.found = [p \in Seeds |-> IF p \in missing
              THEN [alive |-> FALSE, tested |-> "recent"] ELSE scan.found[p]]]
  /\ UNCHANGED <<file, keyed, proxy, proven>>

(* writeProvidersFile empties the file before it fills it *)
Empty ==
  /\ scan.pc = "write" \/ (scan.pc = "endpoint" /\ scan.left = 0)
  /\ file' = [file EXCEPT !.is = "torn"] /\ Changed
  /\ scan' = [scan EXCEPT !.pc = IF @ = "write" THEN "fill" ELSE "last"]
  /\ UNCHANGED <<keyed, proven>>

Fill ==
  /\ scan.pc \in {"fill", "last"}
  /\ file' = [is |-> "whole", says |-> scan.found] /\ Changed
  /\ scan' = IF scan.pc = "last" THEN Off ELSE [scan EXCEPT !.pc = "endpoint"]
  /\ proven' = proven \intersect Alive(scan.found)
  /\ UNCHANGED keyed

Crash ==
  /\ scan' = Off /\ keyed' \in SUBSET Seeds
  /\ UNCHANGED <<file, proxy, proven>>

(* hours, with which a verdict grows old; a reload is long over *)
Age(p) ==
  /\ scan.pc = "off" /\ proxy.timer # "pending" /\ file.says[p].tested = "recent"
  /\ file' = [file EXCEPT !.says[p].tested = "due"]
  /\ UNCHANGED <<scan, keyed, proxy, proven>>

Next ==
  \/ Start \/ Scanned \/ Empty \/ Fill \/ Crash \/ Reload \/ ProxyStarts
  \/ \E p \in Seeds : Test(p) \/ Age(p)

Spec == Init /\ [][Next]_discoveryVars

(***************************************************************************)
(* A provider the proxy holds dead is alive to it again only after a probe *)
(* has succeeded since, or because there was no file it could read: also   *)
(* when tests are skipped, an endpoint drops the provider, the file is     *)
(* written in between, or the daemon or the proxy starts again.            *)
(***************************************************************************)
RevivedByProofOnly ==
  [][file.is = "whole" =>
       \A p \in proxy'.alive \ proxy.alive : p \in proven \union CatalogOnly]_discoveryVars
=============================================================================
