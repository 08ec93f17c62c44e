-------------------------------- MODULE MCParts --------------------------------
(***************************************************************************)
(* The parts that the facade does not create, for the model checker: each  *)
(* behaviour is one of a single part, chosen at the start.  They share no  *)
(* state.                                                                  *)
(***************************************************************************)
EXTENDS MemoryMapper, Prefetcher, TransferScheduler, StreamManager, AscendAdapter, ConfigManager

VARIABLE subject

NoTexts == <<>>
Given == [vram_budget_mb |-> "2", ssd_swap_path |-> Blank, enable_prefetch |-> "1"]
Misgiven == [vram_budget_mb |-> Bad, enable_prefetch |-> "false"]

\* What files and environments give, and what code sets.
SmallFiles ==
  UNION {[names -> {"1", Third, Bad, "true", "path", Blank}] :
           names \in {s \in SUBSET (Settings \ Unsaved) : Cardinality(s) <= 2}}
SomeFiles == {f \in SmallFiles : \A name \in DOMAIN f : f[name] \in Texts(name)}
SomeEnvironments == {NoTexts, Given, Misgiven}
SomeConfigs ==
  {[vram_budget_mb |-> "1", alpha |-> Third, enable_prefetch |-> "false",
    ssd_swap_path |-> Blank, use_lockfree_monitor |-> "false"]}

partsVars ==
  <<mapperVars, prefetchVars, schedulerVars, streamVars, adapterVars, configVars, subject>>

PartsInit ==
  /\ subject \in {"mapper", "prefetcher", "scheduler", "streams", "adapters", "config"}
  /\ MapperInit /\ SchedulerInit /\ StreamInit
  /\ PrefetcherInit
  /\ (subject # "prefetcher" => config_ = [strategy |-> "ORACLE", window |-> 3])
  /\ AdapterInit
  /\ (subject # "adapters" => kind = [a \in Adapters |-> "CPU"] /\ npus = 0)
  /\ ConfigInit /\ (subject # "config" => environment = NoTexts)

PartsNext ==
  /\ subject' = subject
  /\ \/ /\ subject = "mapper" /\ MapperNext
        /\ UNCHANGED <<prefetchVars, schedulerVars, streamVars, adapterVars, configVars>>
     \/ /\ subject = "prefetcher" /\ PrefetcherNext
        /\ UNCHANGED <<mapperVars, schedulerVars, streamVars, adapterVars, configVars>>
     \/ /\ subject = "scheduler" /\ SchedulerNext
        /\ UNCHANGED <<mapperVars, prefetchVars, streamVars, adapterVars, configVars>>
     \/ /\ subject = "streams" /\ StreamNext
        /\ UNCHANGED <<mapperVars, prefetchVars, schedulerVars, adapterVars, configVars>>
     \/ /\ subject = "adapters" /\ AdapterNext
        /\ UNCHANGED <<mapperVars, prefetchVars, schedulerVars, streamVars, configVars>>
     \/ /\ subject = "config" /\ ConfigNext
        /\ UNCHANGED <<mapperVars, prefetchVars, schedulerVars, streamVars, adapterVars>>

PartsSpec == PartsInit /\ [][PartsNext]_partsVars

\* The variables of every part keep their types.
PartsTypeOK ==
  /\ MapperTypeOK /\ PrefetcherTypeOK /\ SchedulerTypeOK /\ StreamTypeOK /\ AdapterTypeOK
  /\ ConfigTypeOK

\* No stream is lent twice, lost, or lent and available, neither by the stream
\* pools nor by the scheduler's queue of streams, and no pool is lost.
StreamsKept == StreamsAccounted /\ PoolsKept /\ StreamsConserved

=============================================================================
