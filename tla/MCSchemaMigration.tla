------------------------- MODULE MCSchemaMigration -------------------------
(* Model-checking instances of SchemaMigration. *)
EXTENDS SchemaMigration

Existing(level, shape, rows, extra) ==
    [level |-> level, ledger |-> shape, rows |-> rows, extra |-> extra]

(* Databases older than the registry, with sound rows and with orphans;    *)
(* every version that a release may have left, with the duplicate keys of  *)
(* superseded migrations, the rows that a migration refuses, a history     *)
(* without a ledger, a ledger of an older layout and a schema newer than   *)
(* the registry.                                                           *)
AllOrigins ==
    {Existing(0, "none", {"runs"}, {}),
     Existing(0, "none", {"runs"}, {"core.plain_columns", "core.zero_columns"}),
     Existing(0, "none", {"runs", "run_orphans"}, {"core.plain_columns", "core.zero_columns"}),
     Existing(3, "sound", {"runs", "decision_orphans"}, {}),
     Existing(4, "legacy", {"runs", "dispatch"}, {"decisions.dup_key"}),
     Existing(7, "sound", {"runs", "dispatch"}, {"requests.dup_key"}),
     Existing(7, "sound", {"runs", "dispatch", "dispatch_orphans"}, {}),
     Existing(9, "sound", {"runs"}, {"attempts"}),
     Existing(11, "sound", {"runs", "dispatch"}, {"scan_requests.approver"}),
     Existing(12, "sound", {"runs", "dispatch", "scan_requests"}, {}),
     Existing(12, "none", {"runs"}, {}),
     Existing(13, "sound", {"runs", "dispatch"}, {}),
     Existing(14, "sound", {"runs"}, {})}

DriftObjects == {"dispatch.lease", "runs.snapshot", "attempts.append_only", "fleet"}
=============================================================================
