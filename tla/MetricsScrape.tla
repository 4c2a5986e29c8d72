----------------------------- MODULE MetricsScrape -----------------------------
(***************************************************************************)
(* The /metrics handler of src/src/http/mod.rs (prometheus_metrics) run    *)
(* against the LagRegister.  It renders three metric families, each in a   *)
(* loop over lag_by_group under its own read lock; between two families    *)
(* the lock is released and any LagRegister step can run.                  *)
(*                                                                         *)
(* A family is abstracted to its series: one per (group, partition) entry  *)
(* with a lag, carrying the value the family exposes.  Labels, headers and *)
(* the text format are left out.                                           *)
(***************************************************************************)
EXTENDS LagRegister

VARIABLES
    spc,         \* where the handler is: "idle", "lagOffset", "lagMs", "done"
    families     \* the series rendered so far, per family name

scrapeVars == <<spc, families>>
allVars == <<vars, scrapeVars>>

FamilyNames == {"offset", "lagOffset", "lagMs"}

\* The field of Lag a family exposes (append_metric of its metrics module).
FamilyValue(f, l) ==
    CASE f = "offset"    -> l.offset
      [] f = "lagOffset" -> l.offsetLag
      [] f = "lagMs"     -> l.timeLag

\* One loop over lag_by_group under a read guard: the series of family f.
Render(f) ==
    LET listed == {gt \in Groups \X TPs : HasLagAt(gt[1], gt[2])}
    IN  {<<gt[1], gt[2], FamilyValue(f, Entry(gt[1], gt[2]).lag)>> : gt \in listed}

ScrapeInit ==
    /\ Init
    /\ spc = "idle"
    /\ families = [f \in FamilyNames |-> {}]

\* A scrape renders the family of its current stage and moves on; the
\* register is left alone (the guard is a read guard).
RenderFamily(from, f, to) ==
    /\ spc = from
    /\ families' = [families EXCEPT ![f] = Render(f)]
    /\ spc' = to
    /\ UNCHANGED vars

RenderOffset == RenderFamily("idle", "offset", "lagOffset")
RenderLagOffset == RenderFamily("lagOffset", "lagOffset", "lagMs")
RenderLagMs == RenderFamily("lagMs", "lagMs", "done")

\* The response is sent; the next scrape starts afresh.
Respond ==
    /\ spc = "done"
    /\ spc' = "idle"
    /\ families' = [f \in FamilyNames |-> {}]
    /\ UNCHANGED vars

Scrape == RenderOffset \/ RenderLagOffset \/ RenderLagMs \/ Respond

ScrapeNext == (Next /\ UNCHANGED scrapeVars) \/ Scrape

ScrapeSpec == ScrapeInit /\ [][ScrapeNext]_allVars

-----------------------------------------------------------------------------

Series(f) == {<<s[1], s[2]>> : s \in families[f]}

\* Spec 4.5: the MetricsReader renders a consistent snapshot of the
\* LagRegister, so a complete response exposes the same (group, partition)
\* series in all three families.
ScrapeSeriesAgree ==
    spc = "done" => Series("offset") = Series("lagOffset") /\ Series("lagOffset") = Series("lagMs")
=============================================================================
