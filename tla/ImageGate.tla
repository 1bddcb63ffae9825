------------------------------ MODULE ImageGate ------------------------------
(***************************************************************************)
(* The image scan of pull requests, .github/scripts/image_scan.py.  A      *)
(* change is checked in one of four modes: a full scan, the comparison of  *)
(* a change to the gate itself with the base, the scan of the image pins   *)
(* that changed, or the validation of exceptions.json alone.  A change     *)
(* that passes is merged, and is the base of the next one.  (The ruleset   *)
(* lets only an up-to-date branch merge; what happens in the world between *)
(* check and merge does not alter what is merged, so they are one step.)   *)
(*                                                                         *)
(* The content of a commit is [pin, scanner, script, entries].  A pin is a *)
(* number: alias a is pinned to reference <<a, pin[a]>>.  Around the check *)
(* the vulnerability database changes, fixes appear, tags move and time    *)
(* passes; one day of the model is thirty days.  Scripts and scanners      *)
(* differ in the findings they no longer report.                           *)
(***************************************************************************)
EXTENDS Integers, FiniteSets

CONSTANTS
    ALIASES,                \* the images
    Repository,             \* Repository[a][p]: Registry/Image of reference p of alias a
    OWN_BUILD_ALIASES,      \* alias -> the repository of our own builds
    BINARY_ONLY_ALIASES,    \* alias -> the repository of images without an OS
    Keys, OsKeys,           \* (package, id) of a finding; those of OS packages
    Scanners, Scripts,
    Blind,                  \* Blind[s]: what script or scanner s does not report
    Candidates,             \* entries a pull request may put into exceptions.json
    Ratings,                \* severities that are disclosed (bound)
    MaxDay, MaxEvents       \* bounds on days and on changes of the outside world

MAX_EXCEPTION_DAYS == 3
MAX_FIXED_EXCEPTION_DAYS == 1
Severities == {"absent", "low", "elevated", "high", "critical"}
PinsOf(a) == DOMAIN Repository[a]
References == {<<a, p>> \in ALIASES \X (UNION {PinsOf(b) : b \in ALIASES}) : p \in PinsOf(a)}
PinSets == {f \in [ALIASES -> UNION {PinsOf(b) : b \in ALIASES}] : \A a \in ALIASES : f[a] \in PinsOf(a)}
GATE_FILES == {"scanner", "script"}

ASSUME ImageGateAssumption ==
    /\ DOMAIN Repository = ALIASES
    /\ DOMAIN OWN_BUILD_ALIASES \subseteq ALIASES
    /\ DOMAIN BINARY_ONLY_ALIASES \subseteq ALIASES \ DOMAIN OWN_BUILD_ALIASES
    /\ OsKeys \subseteq Keys
    /\ \A s \in Scanners \cup Scripts : Blind[s] \subseteq Keys
    /\ Ratings \subseteq Severities \ {"absent"}
    /\ Candidates \subseteq [image : ALIASES, key : Keys, added : Nat, expires : Nat, approved : Int]
    /\ MaxDay \in Nat /\ MaxEvents \in Nat

VARIABLES
    main,       \* the content of the main branch
    last,       \* what the last check that passed was, until it is noted
    day,        \* today
    severity,   \* severity[<<a, p>>][k] in the vulnerability database
    fixed,      \* findings with a fixed version
    moved       \* references <<a, p>> whose tag was rebuilt upstream

vars == <<main, last, day, severity, fixed, moved>>

------------------------------------------------------------------------------
(* References *)

is_own_build(a, p) == a \in DOMAIN OWN_BUILD_ALIASES /\ Repository[a][p] = OWN_BUILD_ALIASES[a]
binary_only(a, p) == a \in DOMAIN BINARY_ONLY_ALIASES /\ Repository[a][p] = BINARY_ONLY_ALIASES[a]
same_repository(a, p, q) == Repository[a][p] = Repository[a][q]

------------------------------------------------------------------------------
(* exceptions.json *)

\* approval_date: -1 when the justification holds no single dated approval.
entry_ok(e) ==
    /\ e.added <= day
    /\ e.added <= e.expires /\ e.expires - e.added <= MAX_EXCEPTION_DAYS
    /\ e.image \in DOMAIN OWN_BUILD_ALIASES => e.approved # -1 /\ e.approved <= e.added

\* Any error rejects the whole file; an expired entry is not an error.
exceptions_ok(entries) ==
    /\ \A e \in entries : entry_ok(e)
    /\ \A e, f \in entries : e.image = f.image /\ e.key = f.key => e = f

------------------------------------------------------------------------------
(* One scan *)

\* What may be wrong with the document of a scan.
Defects == {"exit", "source", "layers", "distro", "db", "sbom", "build"}

\* A defect is harmless where the image has nothing of the kind: no OS in a binary-only image, no
\* use of the SBOM of an ordinary one.  Otherwise the document lists no match.
Harmless(a, p) ==
    CASE binary_only(a, p) -> {"distro", "build"}
      [] is_own_build(a, p) -> {}
      [] OTHER -> {"sbom", "build"}

matches(c, a, d) ==
    IF d = "none" \/ d \in Harmless(a, c.pin[a])
    THEN {k \in Keys : severity[a, c.pin[a]][k] # "absent"} \ (Blind[c.script] \cup Blind[c.scanner])
    ELSE {}

\* The SBOM is evidence for binaries: ours must hold the version of the pinned tag.
sbom_ok(a, p, d) == d # "sbom" /\ (is_own_build(a, p) => d # "build")

check_provenance(a, p, d) ==
    /\ d \notin {"source", "layers", "db"}
    /\ d = "distro" => binary_only(a, p)
    /\ binary_only(a, p) \/ is_own_build(a, p) => sbom_ok(a, p, d)

scan_trusted(a, p, d) == d # "exit" /\ check_provenance(a, p, d)

\* An unknown rating with a CVSS score of 7 or more counts as High.
rank_of(s) == CASE s = "critical" -> 2 [] s \in {"high", "elevated"} -> 1 [] OTHER -> 0

resolve_tag_state(a, p, reachable) ==
    IF ~reachable THEN "unknown" ELSE IF <<a, p>> \in moved THEN "moved" ELSE "unchanged"

keeps_fixed_exception(e, k, tag_state) ==
    /\ tag_state = "unchanged"
    /\ k \in OsKeys
    /\ e.expires - e.added <= MAX_FIXED_EXCEPTION_DAYS

\* High and Critical matches that no active entry covers; a fix ends an entry at once.
evaluate(a, p, found, entries, tag_state) ==
    {k \in found :
       /\ rank_of(severity[a, p][k]) > 0
       /\ ~ \E e \in entries :
             /\ e.image = a /\ e.key = k /\ day <= e.expires
             /\ k \in fixed => keeps_fixed_exception(e, k, tag_state)}

\* Our own builds are evaluated without a tag state: their tag never moves.
findings(c, a, w) ==
    evaluate(a, c.pin[a], matches(c, a, w.head[a]), c.entries,
             IF is_own_build(a, c.pin[a]) THEN "none" ELSE resolve_tag_state(a, c.pin[a], w.registry))

scan_targets(c, w) ==
    \A a \in ALIASES : scan_trusted(a, c.pin[a], w.head[a]) /\ findings(c, a, w) = {}

------------------------------------------------------------------------------
(* The comparison with the base *)

base_ranks(b, a, found) ==
    [k \in Keys |-> IF k \in found THEN rank_of(severity[a, b.pin[a]][k]) ELSE 0]

\* Mutant of new_findings: a finding the base has too is never new, whatever its rank there.
NewFindingsByKey(c, a, found, ranks) == {k \in found : ranks[k] = 0}

new_findings(c, a, found, ranks) ==
    {k \in found : ranks[k] = 0 \/ rank_of(severity[a, c.pin[a]][k]) > ranks[k]}

compare_alias(c, b, a, mode, w) ==
    LET found == findings(c, a, w)
        unchanged == w.base /\ b.scanner = c.scanner /\ b.pin[a] = c.pin[a]
        base_doc == /\ w.base /\ same_repository(a, b.pin[a], c.pin[a])
                    /\ scan_trusted(a, b.pin[a], w.baseDoc[a])
        base_raw == matches(b, a, w.baseDoc[a])
        ranks == IF base_doc THEN base_ranks(b, a, base_raw) ELSE [k \in Keys |-> 0]
    IN /\ scan_trusted(a, c.pin[a], w.head[a])
       /\ ~(mode = "gate-change" /\ ~base_doc /\ unchanged)
       /\ new_findings(c, a, found, ranks) = {}
       /\ base_doc /\ unchanged => base_raw \subseteq matches(c, a, w.head[a])    \* R-1

------------------------------------------------------------------------------
(* One run *)

\* The paths of the lane `images_changed` that the change touches.
changed_files(c, b, extra) ==
    extra \cup (IF c.pin # b.pin THEN {"pins"} ELSE {})
          \cup (IF c.entries # b.entries THEN {"exceptions"} ELSE {})
          \cup (IF c.scanner # b.scanner THEN {"scanner"} ELSE {})
          \cup (IF c.script # b.script THEN {"script"} ELSE {})

\* Mutant of select_mode: the script is not one of the gate's own files.
SelectModeScannerOnly(event, changed, git) ==
    LET lane == changed \ {"outside"} IN
    CASE event # "pull_request" \/ ~git \/ lane = {} \/ "unclassified" \in lane -> "full"
      [] "scanner" \in lane -> "gate-change"
      [] lane = {"exceptions"} -> "validator"
      [] OTHER -> "delta"

\* Every doubt is a full scan: no merge commit, an unknown base, a path nobody classified.
select_mode(event, changed, git) ==
    LET lane == changed \ {"outside"} IN
    CASE event # "pull_request" \/ ~git \/ lane = {} \/ "unclassified" \in lane -> "full"
      [] GATE_FILES \cap lane # {} -> "gate-change"
      [] lane = {"exceptions"} -> "validator"
      [] OTHER -> "delta"

changed_aliases(b, c) == {a \in ALIASES : b.pin[a] # c.pin[a]}

\* The pins of the base are read from git first; when they cannot be, the scan is full.
run_mode(event, c, b, extra, w) ==
    LET mode == select_mode(event, changed_files(c, b, extra), w.git)
    IN IF mode = "delta" /\ ~w.pins THEN "full" ELSE mode

run(event, c, b, extra, w) ==
    LET mode == run_mode(event, c, b, extra, w)
        targets == IF mode = "delta" THEN changed_aliases(b, c) ELSE ALIASES
    IN /\ exceptions_ok(c.entries)
       /\ \/ mode = "validator"
          \/ mode = "delta" /\ targets = {}
          \/ mode = "full" /\ w.update /\ scan_targets(c, w)
          \/ /\ mode \in {"delta", "gate-change"} /\ w.update
             /\ mode = "gate-change" => w.base
             /\ \A a \in targets : compare_alias(c, b, a, mode, w)

------------------------------------------------------------------------------
(* Behaviour *)

NoDefect == [a \in ALIASES |-> "none"]
Healthy == [git |-> TRUE, pins |-> TRUE, update |-> TRUE, base |-> TRUE, registry |-> TRUE,
            head |-> NoDefect, baseDoc |-> NoDefect]

\* What one run may meet: git, the database update, the base checkout or the registry fails, or
\* one scan of the head returns a defective document, or one of the base fails.
Faults ==
    {Healthy, [Healthy EXCEPT !.git = FALSE], [Healthy EXCEPT !.pins = FALSE],
     [Healthy EXCEPT !.update = FALSE], [Healthy EXCEPT !.base = FALSE],
     [Healthy EXCEPT !.registry = FALSE]}
    \cup {[Healthy EXCEPT !.head[a] = d] : a \in ALIASES, d \in Defects}
    \cup {[Healthy EXCEPT !.baseDoc[a] = "exit"] : a \in ALIASES}

\* The changes of a pull request: the pins, and one of scanner, script and an entry.
Heads ==
    {[main EXCEPT !.pin = f] : f \in PinSets}
    \cup {[main EXCEPT !.pin = f, !.script = s] : f \in PinSets, s \in Scripts}
    \cup {[main EXCEPT !.pin = f, !.scanner = s] : f \in PinSets, s \in Scanners}
    \cup {[main EXCEPT !.pin = f, !.entries = @ \cup {e}] : f \in PinSets, e \in Candidates}
    \cup {[main EXCEPT !.pin = f, !.entries = @ \ {e}] : f \in PinSets, e \in Candidates}

\* Other paths of the change: the parity file, one of the lane nobody classified, one outside it.
Extras == {{"parity"}, {"unclassified"}, {"outside"}}

\* A pull request whose check passes; a failing check changes nothing.
MergePullRequest(c, extra) ==
    /\ last = "none"
    /\ LET passing == {w \in Faults : run("pull_request", c, main, extra, w)}
       IN last' \in {IF run_mode("pull_request", c, main, extra, w) = "full" THEN "full" ELSE "none" : w \in passing}
    /\ main' = c
    /\ UNCHANGED <<day, severity, fixed, moved>>

\* The scheduled scan of main.
PassSchedule ==
    /\ last = "none"
    /\ {w \in Faults : run("schedule", main, main, {}, w)} # {}
    /\ last' = "schedule"
    /\ UNCHANGED <<main, day, severity, fixed, moved>>

Noted ==
    /\ last # "none"
    /\ last' = "none"
    /\ UNCHANGED <<main, day, severity, fixed, moved>>

Events ==
    day + Cardinality(fixed) + Cardinality(moved) +
    Cardinality({x \in References \X Keys : severity[x[1]][x[2]] # "absent"})

Disclose(ref, k, s) ==
    /\ severity[ref][k] = "absent" /\ Events < MaxEvents
    /\ severity' = [severity EXCEPT ![ref][k] = s]
    /\ UNCHANGED <<main, last, day, fixed, moved>>

PublishFix(k) ==
    /\ k \notin fixed /\ Events < MaxEvents
    /\ fixed' = fixed \cup {k}
    /\ UNCHANGED <<main, last, day, severity, moved>>

MoveTag(ref) ==
    /\ ref \notin moved /\ Events < MaxEvents
    /\ ~is_own_build(ref[1], ref[2])
    /\ moved' = moved \cup {ref}
    /\ UNCHANGED <<main, last, day, severity, fixed>>

NextDay ==
    /\ day < MaxDay /\ Events < MaxEvents
    /\ day' = day + 1
    /\ UNCHANGED <<main, last, severity, fixed, moved>>

Init ==
    /\ \E f \in PinSets, t \in Scripts, g \in Scanners :
          /\ Blind[t] = {} /\ Blind[g] = {}
          /\ main = [pin |-> f, scanner |-> g, script |-> t, entries |-> {}]
    /\ last = "none"
    /\ day = 0
    /\ severity = [ref \in References |-> [k \in Keys |-> "absent"]]
    /\ fixed = {} /\ moved = {}

Next ==
    \/ \E c \in Heads, extra \in Extras : MergePullRequest(c, extra)
    \/ PassSchedule
    \/ Noted
    \/ \E ref \in References, k \in Keys, s \in Ratings : Disclose(ref, k, s)
    \/ \E k \in Keys : PublishFix(k)
    \/ \E ref \in References : MoveTag(ref)
    \/ NextDay

Spec == Init /\ [][Next]_vars

------------------------------------------------------------------------------
(* Properties *)

\* What the scan of content c reports when nothing fails.
Reported(c, a) == matches(c, a, "none")

\* An entry of c excepts finding k of alias a today, by the policy's own terms.
Excepted(c, a, k) ==
    \E e \in c.entries :
       /\ e.image = a /\ e.key = k
       /\ e.added <= day /\ day <= e.expires /\ e.expires <= e.added + 3
       /\ Repository[a][c.pin[a]] \in {OWN_BUILD_ALIASES[b] : b \in DOMAIN OWN_BUILD_ALIASES \cap {a}}
            => e.approved \in 0 .. e.added /\ k \notin fixed
       /\ k \in fixed => k \in OsKeys /\ e.expires <= e.added + 1 /\ <<a, c.pin[a]>> \notin moved

\* Main already has finding k of alias a, in the same repository and rated at least as high.
AtBase(c, a, k) ==
    /\ Repository[a][main.pin[a]] = Repository[a][c.pin[a]]
    /\ k \in Reported(main, a)
    /\ severity[a, main.pin[a]][k] = "critical" \/ severity[a, c.pin[a]][k] # "critical"
    /\ severity[a, main.pin[a]][k] \in {"elevated", "high", "critical"}

\* Whatever the mode, and whatever fails during the run, a check that passes brings no High or
\* Critical finding that is neither excepted nor at the base; the scheduled scan accepts none.
RatchetHolds ==
    [][ main' # main \/ (last = "none" /\ last' = "schedule") =>
          \A a \in ALIASES : \A k \in Reported(main', a) :
             \/ severity[a, main'.pin[a]][k] \in {"absent", "low"}
             \/ Excepted(main', a, k)
             \/ last' # "schedule" /\ AtBase(main', a, k) ]_vars

\* A change that is checked by a comparison or not scanned at all still reports everything main
\* reports for the images whose reference and scanner it leaves alone.  (A full scan compares
\* nothing, and a change of the gate that comes with a path nobody classified is scanned so.)
ScannerNeverGoesBlind ==
    [][ \A a \in ALIASES :
          main.scanner = main'.scanner /\ main.pin[a] = main'.pin[a]
            => \/ Reported(main, a) \subseteq Reported(main', a)
               \/ last' = "full" ]_vars

=============================================================================
