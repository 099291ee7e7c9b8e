------------------------------ MODULE Loggers ------------------------------
(***************************************************************************)
(* The loggers of internal/core/service: the fluent clones of the unified, *)
(* the strategy and the OTel logger, the strategies an entry runs through, *)
(* and the security logger that filters fields by the reader's role.       *)
(*                                                                         *)
(* An OTel logger points to a strategy object, which points to the fields. *)
(* Deriving a logger makes a new strategy object, so that loggers share    *)
(* one only where the code returns the receiver.  What is modelled of a    *)
(* field is its key, who attached it, and what its value is to the         *)
(* maskers.  An entry is followed up to the sinks: what happens to it      *)
(* there is AsyncPipeline, LokiSink and Sinks.                             *)
(*                                                                         *)
(* One step is one access of a shared strategy object or one critical      *)
(* section of the strategy manager, the rules or the audit trail; but      *)
(* FilterFieldsByAccess, which locks the rules once per field and then the *)
(* trail, is one step.                                                     *)
(***************************************************************************)
EXTENDS Naturals, Sequences, FiniteSets, SequencesExt, Functions

CONSTANTS
  Threads,       \* goroutines
  Keys,          \* field keys
  Ids,           \* keys that Promote moves to the top of a line: trace_id, user_id, ...
  Personal,      \* keys that isPIIField recognises
  Secrets,       \* keys with a masking rule of their own: password, secret, ...
  Users,         \* readers of secured lines: records [role, authed]
  Rules,         \* access rules: records [auth, denied, allowed]
  RootFields,    \* the fields of the shared logger
  Texts,         \* kinds of values the goroutines attach
  Levels,        \* levels, ordered
  Ranges,        \* level ranges <<min, max>> of level filters
  MaxLoggers,    \* bound on the number of strategy objects
  MaxChanges,    \* bound on the changes of strategies and rules
  AuditCap       \* maxSize of the audit trail: 10000 in the code

Root == 1
NoRule == [auth |-> FALSE, denied |-> {}, allowed |-> {}]
NoUser == [role |-> "nobody", authed |-> FALSE]
Info == 1
Nobody == "root"

\* A string of no interest; strings with an e-mail address or card number, or with one of
\* the identifiers only the security masker knows; not a string; a struct; what a masker
\* leaves of a value.
AllTexts == {"plain", "card", "national", "number", "struct", "masked"}

ASSUME LoggersAssumption ==
  /\ Ids \subseteq Keys /\ Personal \subseteq Keys /\ Secrets \subseteq Keys
  /\ DOMAIN RootFields \subseteq Keys
  /\ RootFields \in [DOMAIN RootFields -> [by : {Nobody}, text : AllTexts]]
  /\ Texts \subseteq AllTexts /\ NoRule \in Rules
  /\ Levels \subseteq Nat /\ Info \in Levels
  /\ Ranges \subseteq Levels \X Levels
  /\ MaxLoggers \in Nat \ {0} /\ MaxChanges \in Nat /\ AuditCap \in Nat \ {0}

VARIABLES
  kind,          \* "unified" loggers have no strategies, "otel" ones have, and "secure" ones
                 \* are otel loggers that a security logger wraps
  base,          \* the fields of each strategy object
  made,          \* how many strategy objects there are
  using,         \* the strategy object of each goroutine's logger
  \* the strategy manager, shared by all of them
  filters, samplers, maskers,
  enabled,       \* the security masker is on
  \* the security logger
  rules,         \* the access rule of each key
  audit,         \* the audit trail: records [user, keys]
  \* goroutines
  pc, call,      \* where each is, and the call it makes
  \* history
  given,         \* what each logger was derived with
  overlapped,    \* goroutines whose secured call ran at the same time as another one
  covered,       \* maskers at work ever since the entry was made
  since,         \* audits recorded since that of the goroutine's call
  changes        \* changes of strategies and rules so far

objects    == <<kind, base, made, using, given>>
strategies == <<filters, samplers, maskers, enabled>>
security   == <<rules, audit, since>>
threads    == <<pc, call, overlapped, covered>>
vars       == <<objects, strategies, security, threads, changes>>

Loggers == 1..MaxLoggers
NoFields == [k \in {} |-> {}]

\* A call: the logger, the level, the reader (or NoUser), the fields that LogWithSecurity
\* copied or let through, and the entry, whose ids are at the top.
NoCall == [logger |-> Root, level |-> Info, user |-> NoUser, kept |-> NoFields, top |-> NoFields, fields |-> NoFields]

Init ==
  /\ kind \in {"unified", "otel", "secure"}
  /\ base = [l \in Loggers |-> IF l = Root THEN RootFields ELSE NoFields]
  /\ given = base
  /\ made = 1
  /\ using = [t \in Threads |-> Root]
  /\ filters = {} /\ samplers = {"all"} /\ enabled = TRUE
  /\ maskers = {"regex"} \cup IF kind = "secure" THEN {"pii"} ELSE {}
  /\ rules \in [Keys -> IF kind = "secure" THEN Rules ELSE {NoRule}]
  /\ audit = <<>> /\ since = [t \in Threads |-> 0]
  /\ pc = [t \in Threads |-> "idle"] /\ call = [t \in Threads |-> NoCall]
  /\ overlapped = {} /\ covered = [t \in Threads |-> {}]
  /\ changes = 0

----------------------------------------------------------------------------
(* Deriving loggers.                                                       *)

\* Fields f with one field attached.
With(f, k, v) == [x \in DOMAIN f \cup {k} |-> IF x = k THEN v ELSE f[x]]

\* The receiver itself gets the field and is returned.
NewStrategyInPlace(t, l, f) ==
  /\ base' = [base EXCEPT ![l] = f]
  /\ using' = [using EXCEPT ![t] = l]
  /\ UNCHANGED <<kind, made, given>>

\* A clone of strategy object l, with fields f.
NewStrategy(t, l, f) ==
  /\ made < MaxLoggers
  /\ made' = made + 1
  /\ base' = [base EXCEPT ![made'] = f]
  /\ given' = [given EXCEPT ![made'] = f]
  /\ using' = [using EXCEPT ![t] = made']
  /\ UNCHANGED kind

\* F, or Fs, Ctx, TraceID, UserID, RequestID and WithError with something to attach.
Derive(t, l, k, text) ==
  /\ pc[t] = "idle"
  /\ NewStrategy(t, l, With(base[l], k, [by |-> t, text |-> text]))
  /\ UNCHANGED <<strategies, security, threads, changes>>

\* Fs(nil), Ctx(nil), WithError(nil) and WithSpan: the receiver, or a wrapper of its own
\* around the same strategy object.
DeriveNothing(t, l) ==
  /\ pc[t] = "idle"
  /\ l # using[t]
  /\ using' = [using EXCEPT ![t] = l]
  /\ UNCHANGED <<kind, base, made, given, strategies, security, threads, changes>>

----------------------------------------------------------------------------
(* Writing a line.                                                         *)

\* The ids that move to the top of an entry: strings only.
Promoted(f) == {k \in DOMAIN f \cap Ids : f[k].text \notin {"number", "struct"}}

\* The level is enabled: FieldsCopy, Promote.
Snapshot(t, c) ==
  LET f == base[c.logger]
  IN  /\ call' = [call EXCEPT ![t] = [c EXCEPT !.top = Restrict(f, Promoted(f)),
                                               !.fields = Restrict(f, DOMAIN f \ Promoted(f))]]
      /\ covered' = [covered EXCEPT ![t] = {m \in maskers : m = "pii" => enabled}]
      /\ pc' = [pc EXCEPT ![t] = "process"]

\* UnifiedLogBrt.log: the entry goes to the sinks as it is.
LogUnified(t, level) ==
  /\ kind = "unified" /\ pc[t] = "idle"
  /\ level >= Info
  /\ LET f == base[using[t]]
     IN  call' = [call EXCEPT ![t] =
           [NoCall EXCEPT !.logger = using[t], !.level = level,
                          !.top = Restrict(f, Promoted(f)),
                          !.fields = Restrict(f, DOMAIN f \ Promoted(f))]]
  /\ pc' = [pc EXCEPT ![t] = "write"]
  /\ UNCHANGED <<objects, strategies, security, overlapped, covered, changes>>

\* Debug to Fatal on the logger of the goroutine.
Log(t, level) ==
  /\ kind # "unified" /\ pc[t] = "idle"
  /\ level >= Info
  /\ Snapshot(t, [NoCall EXCEPT !.logger = using[t], !.level = level])
  /\ UNCHANGED <<objects, strategies, security, overlapped, changes>>

\* LevelFilter.
ShouldLog(level) == \A r \in filters : r[1] <= level /\ level <= r[2]

\* RateSampler and AdaptiveSampler: rates 0 and 1 decide, any other is drawn.
ShouldSample == IF "none" \in samplers THEN {FALSE} ELSE IF "some" \in samplers THEN BOOLEAN ELSE {TRUE}

\* RegexMaskingStrategy: strings with one of its patterns.
MaskRegex(f) ==
  [k \in DOMAIN f |-> IF f[k].text = "card" THEN [f[k] EXCEPT !.text = "masked"] ELSE f[k]]

\* PIIMasker: the rule of the key masks any string, and leaves other values alone; without
\* a rule the patterns mask strings, and a struct shrinks to its tagged, masked fields.
MaskPII(f) ==
  [k \in DOMAIN f |->
     IF \/ k \in Secrets /\ f[k].text \notin {"number", "struct"}
        \/ k \notin Secrets /\ f[k].text \in {"card", "national", "struct"}
     THEN [f[k] EXCEPT !.text = "masked"] ELSE f[k]]

\* Only the first masker runs.
MaskFieldsFirst(f) == IF "regex" \in maskers THEN MaskRegex(f) ELSE MaskPII(f)

\* All of them, in the order they were added.
MaskFields(f) ==
  LET g == IF "regex" \in maskers THEN MaskRegex(f) ELSE f
  IN  IF "pii" \in maskers /\ enabled THEN MaskPII(g) ELSE g

\* ProcessEntry, under the read lock: filters, samplers, maskers.
ProcessEntry(t) ==
  /\ pc[t] = "process"
  /\ \E sampled \in ShouldSample :
       IF ShouldLog(call[t].level) /\ sampled
       THEN /\ call' = [call EXCEPT ![t].fields = MaskFields(@)]
            /\ pc' = [pc EXCEPT ![t] = "write"]
       ELSE /\ call' = [call EXCEPT ![t] = NoCall]
            /\ pc' = [pc EXCEPT ![t] = "idle"]
  /\ UNCHANGED <<objects, strategies, security, overlapped, covered, changes>>

\* The entry goes to the pipeline; the call returns.
Write(t) ==
  /\ pc[t] = "write"
  /\ pc' = [pc EXCEPT ![t] = "idle"]
  /\ call' = [call EXCEPT ![t] = NoCall]
  /\ overlapped' = overlapped \ {t}
  /\ covered' = [covered EXCEPT ![t] = {}]
  /\ since' = [since EXCEPT ![t] = 0]
  /\ UNCHANGED <<objects, strategies, rules, audit, changes>>

----------------------------------------------------------------------------
(* The security logger, which wraps the shared logger.                     *)

InSecured(t) == pc[t] \in {"filter", "install", "emit"}

\* LogWithSecurity copies the fields of the shared logger.
LogWithSecurity(t, u) ==
  /\ kind = "secure" /\ pc[t] = "idle"
  /\ call' = [call EXCEPT ![t] = [NoCall EXCEPT !.user = u, !.kept = base[Root]]]
  /\ pc' = [pc EXCEPT ![t] = "filter"]
  /\ overlapped' = LET others == {o \in Threads \ {t} : InSecured(o)}
                   IN  overlapped \cup others \cup IF others = {} THEN {} ELSE {t}
  /\ UNCHANGED <<objects, strategies, security, covered, changes>>

\* Login, then the denied roles, then the allowed ones if there are any.
CheckFieldAccess(r, u) ==
  /\ r.auth => u.authed
  /\ u.role \notin r.denied
  /\ r.allowed # {} => u.role \in r.allowed

\* One more record after those of the other goroutines.
Recorded(t) ==
  since' = [o \in Threads |-> CASE o = t -> 0
                               [] o # t /\ since[o] < AuditCap -> since[o] + 1
                               [] OTHER -> since[o]]

\* Drops the newest record.
RecordAuditNew(t, e) ==
  /\ audit' = IF Len(audit) < AuditCap THEN Append(audit, e) ELSE audit
  /\ Recorded(t)

\* Trims one record too late.
RecordAuditLate(t, e) ==
  /\ audit' = IF Len(audit) <= AuditCap THEN Append(audit, e) ELSE Append(Tail(audit), e)
  /\ Recorded(t)

\* The trail keeps the last AuditCap records.
RecordAudit(t, e) ==
  /\ audit' = IF Len(audit) < AuditCap THEN Append(audit, e) ELSE Append(Tail(audit), e)
  /\ Recorded(t)

\* The fields the reader may see; personal ones among them are audited.
FilterFieldsByAccess(t) ==
  LET c    == call[t]
      seen == {k \in DOMAIN c.kept : CheckFieldAccess(rules[k], c.user)}
  IN  /\ pc[t] = "filter"
      /\ call' = [call EXCEPT ![t].kept = Restrict(c.kept, seen)]
      /\ IF seen \cap Personal # {}
         THEN RecordAudit(t, [user |-> c.user, keys |-> seen \cap Personal])
         ELSE UNCHANGED <<audit, since>>
      /\ pc' = [pc EXCEPT ![t] = "install"]
      /\ UNCHANGED <<objects, strategies, rules, overlapped, covered, changes>>

\* Leaves the fields of the shared logger as they are.
WithOnlyFieldsNot(t) ==
  /\ pc[t] = "install"
  /\ pc' = [pc EXCEPT ![t] = "emit"]
  /\ UNCHANGED <<objects, strategies, security, call, overlapped, covered, changes>>

\* WithOnlyFields replaces the fields of the shared logger, and returns that logger.
WithOnlyFields(t) ==
  /\ pc[t] = "install"
  /\ base' = [base EXCEPT ![Root] = call[t].kept]
  /\ pc' = [pc EXCEPT ![t] = "emit"]
  /\ UNCHANGED <<kind, made, using, given, strategies, security, call, overlapped, covered, changes>>

\* Infof on it, whatever level was asked for.
Emit(t) ==
  /\ pc[t] = "emit"
  /\ Snapshot(t, call[t])
  /\ UNCHANGED <<objects, strategies, security, overlapped, changes>>

----------------------------------------------------------------------------
(* Configuration, from any goroutine.                                      *)

Change == kind # "unified" /\ changes < MaxChanges /\ changes' = changes + 1

\* What is still at work of what covered each entry.
StillCovered == covered' = [t \in Threads |-> {m \in covered[t] \cap maskers' : m = "pii" => enabled'}]

AddFilter(r) ==
  /\ Change
  /\ filters' = filters \cup {r}
  /\ UNCHANGED <<objects, samplers, maskers, enabled, security, threads>>

AddSampler(s) ==
  /\ Change
  /\ samplers' = samplers \cup {s}
  /\ UNCHANGED <<objects, filters, maskers, enabled, security, threads>>

AddMasker(m) ==
  /\ Change
  /\ maskers' = maskers \cup {m}
  /\ UNCHANGED <<objects, filters, samplers, enabled, security, threads>>

\* By name: all level filters have the same one.
RemoveStrategy ==
  /\ Change
  /\ \/ filters' = {} /\ UNCHANGED <<samplers, maskers>>
     \/ samplers' \in {{}, samplers \ {"some"}} /\ UNCHANGED <<filters, maskers>>
     \/ \E m \in maskers : maskers' = maskers \ {m} /\ UNCHANGED <<filters, samplers>>
  /\ UNCHANGED <<objects, enabled, security, pc, call, overlapped>>
  /\ StillCovered

\* Configure of the security masker.
Configure ==
  /\ Change
  /\ enabled' = ~enabled
  /\ UNCHANGED <<objects, filters, samplers, maskers, security, pc, call, overlapped>>
  /\ StillCovered

SetFieldAccess(k, r) ==
  /\ Change /\ kind = "secure"
  /\ r # rules[k]
  /\ rules' = [rules EXCEPT ![k] = r]
  /\ UNCHANGED <<objects, strategies, audit, since, threads>>

Next ==
  \/ \E t \in Threads :
       \/ \E l \in {Root, using[t]} :
            \/ \E k \in Keys, x \in Texts : Derive(t, l, k, x)
            \/ DeriveNothing(t, l)
       \/ \E level \in Levels : Log(t, level) \/ LogUnified(t, level)
       \/ ProcessEntry(t) \/ Write(t)
       \/ \E u \in Users : LogWithSecurity(t, u)
       \/ FilterFieldsByAccess(t) \/ WithOnlyFields(t) \/ Emit(t)
  \/ \E r \in Ranges : AddFilter(r)
  \/ \E s \in {"some", "none"} : AddSampler(s)
  \/ \E m \in {"regex", "pii"} \ maskers : AddMasker(m)
  \/ RemoveStrategy \/ Configure
  \/ \E k \in Keys, r \in Rules : SetFieldAccess(k, r)

Spec == Init /\ [][Next]_vars

----------------------------------------------------------------------------
(* What a JSON sink prints, and the properties.                            *)

\* WriteJSONToWriter: the ids at the top, and the fields under no reserved key.
Printed(c) == DOMAIN c.top \cup (DOMAIN c.fields \ Ids)

FieldMaps == UNION {[S -> [by : Threads \cup {Nobody}, text : AllTexts]] : S \in SUBSET Keys}
Readers == Users \cup {NoUser}
Calls == [logger : Loggers, level : Levels, user : Readers, kept : FieldMaps, top : FieldMaps, fields : FieldMaps]

\* Every variable has its type; a goroutine has an entry only between log and Write.
TypeOK ==
  /\ kind \in {"unified", "otel", "secure"}
  /\ made \in Loggers
  /\ using \in [Threads -> 1..made]
  /\ base \in [Loggers -> FieldMaps] /\ given \in [Loggers -> FieldMaps]
  /\ filters \subseteq Ranges /\ samplers \subseteq {"all", "some", "none"}
  /\ maskers \subseteq {"regex", "pii"} /\ enabled \in BOOLEAN
  /\ rules \in [Keys -> Rules]
  /\ audit \in Seq([user : Readers, keys : SUBSET Keys]) /\ Len(audit) <= AuditCap
  /\ since \in [Threads -> 0..AuditCap]
  /\ pc \in [Threads -> {"idle", "process", "write", "filter", "install", "emit"}]
  /\ call \in [Threads -> Calls]
  /\ \A t \in Threads : DOMAIN call[t].top \cup DOMAIN call[t].fields # {} => pc[t] \in {"process", "write"}
  /\ overlapped \subseteq Threads
  /\ covered \in [Threads -> SUBSET {"regex", "pii"}]

\* A line shows the fields its logger was derived with, each as its author attached it or
\* masked, and nothing of another goroutine's logger; only an id that is no string is not
\* printed.  The shared logger may have lost fields to LogWithSecurity (comments of the
\* three clone methods).
LineIsolated ==
  \A t \in Threads : pc[t] = "write" =>
    LET c == call[t]
        g == given[c.logger]
        odd == {k \in DOMAIN g \cap Ids : g[k].text \in {"number", "struct"}}
        Same(v, w) == v.by = w.by /\ (v.text = w.text \/ v.text = "masked")
    IN  /\ Printed(c) \subseteq DOMAIN g \ odd
        /\ c.logger # Root => Printed(c) = DOMAIN g \ odd
        /\ \A k \in DOMAIN c.top : c.top[k] = g[k]
        /\ \A k \in DOMAIN c.fields : Same(c.fields[k], g[k])

\* A masker that is at work from the entry to the sink leaves nothing it knows readable, in
\* any field but the ids at the top, which the maskers never see.
RawOnlyInIds ==
  \A t \in Threads : pc[t] = "write" =>
    \A k \in DOMAIN call[t].fields :
      /\ "regex" \in covered[t] => call[t].fields[k].text # "card"
      /\ "pii" \in covered[t] =>
           IF k \in Secrets THEN call[t].fields[k].text \in {"number", "struct", "masked"}
           ELSE call[t].fields[k].text \in {"plain", "number", "masked"}

Secured(t) == pc[t] = "write" /\ call[t].user # NoUser

\* A secured line shows its reader no field that the rules kept from him, unless the calls
\* of two goroutines overlapped.
SecuredLineFiltered ==
  \A t \in Threads : Secured(t) /\ t \notin overlapped =>
    Printed(call[t]) \subseteq DOMAIN call[t].kept

\* The audit trail says of a secured line whose reader saw which personal field, as long as
\* no more than AuditCap records came after it.
PersonalDataAudited ==
  \A t \in Threads : Secured(t) /\ t \notin overlapped =>
    LET seen == Printed(call[t]) \cap Personal
    IN  \/ seen = {} \/ since[t] = AuditCap
        \/ \E i \in DOMAIN audit : audit[i].user = call[t].user /\ seen \subseteq audit[i].keys

\* LogWithSecurity leaves the fields of the logger as they were (the test of that name,
\* security_clone_test.go).
FieldsNotCleared == base[Root] = given[Root]
============================================================================
