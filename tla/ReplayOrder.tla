---------------------------- MODULE ReplayOrder ----------------------------
(* The two orders of the streaming path, on records with a time, an        *)
(* instance and an id.                                                      *)
EXTENDS Integers

\* Mutation: only the times of neighbouring records are compared.
KeyLeqByTime(a, b) == a.time <= b.time

\* _trace_sort_key: (service_start_time, instance_uuid, request_id)
KeyLeq(a, b) ==
    \/ a.time < b.time
    \/ a.time = b.time /\ a.instance < b.instance
    \/ a.time = b.time /\ a.instance = b.instance /\ a.id <= b.id

\* _source_sort_key: (start_time_ms, request_id)
SourceKeyLeq(a, b) ==
    \/ a.time < b.time
    \/ a.time = b.time /\ a.id <= b.id
=========================================================================
