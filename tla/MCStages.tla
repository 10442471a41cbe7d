------------------------------ MODULE MCStages ------------------------------
(* A small sync: see MCStages_pipeline.cfg.                                *)
EXTENDS Stages

CONSTANTS d1, d2, d3, d4, k1, k2, k3, k4

\* The first stage waits for an item before it sends the last one.
Looping == << <<"put", d1>>, <<"put", d2>>, <<"await", d2>>, <<"put", d3>>,
              <<"put", d4>> >>

\* d1 and d2 are the same content, which the version has; d3 and d4 are new.
KeyOf == (d1 :> k1) @@ (d2 :> k1) @@ (d3 :> k2) @@ (d4 :> k4)

\* DeclarativeVersion.pipeline_stages() without alternate content sources.
Pipeline == <<"first", "artifacts", "download", "save", "query", "content",
              "resolve", "associate", "end">>

\* The remote does not say how long d3 is.
Announced == (d1 :> 1) @@ (d2 :> 1) @@ (d3 :> 0) @@ (d4 :> 1)
SizeOf == (d1 :> 1) @@ (d2 :> 1) @@ (d3 :> 1) @@ (d4 :> 1)
=============================================================================
