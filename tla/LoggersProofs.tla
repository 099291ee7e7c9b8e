--------------------------- MODULE LoggersProofs ---------------------------
(***************************************************************************)
(* Proofs about Loggers, for any goroutines, fields, readers, rules and    *)
(* strategies, and any bounds.                                             *)
(***************************************************************************)
EXTENDS Loggers, SequenceTheorems, TLAPS

USE DEF objects, strategies, security, threads

----------------------------------------------------------------------------
(* Fields.                                                                 *)

Values == [by : Threads \cup {Nobody}, text : AllTexts]

LEMMA FieldsAre ==
  /\ \A f \in FieldMaps : DOMAIN f \subseteq Keys /\ f \in [DOMAIN f -> Values]
  /\ \A S \in SUBSET Keys : \A f \in [S -> Values] : f \in FieldMaps /\ DOMAIN f = S
BY DEF FieldMaps, Values

\* f is a part of g.
Part(f, g) == DOMAIN f \subseteq DOMAIN g /\ \A k \in DOMAIN f : f[k] = g[k]

\* A masker changes the text of a field, never its key or author.
Same(v, w) == v.by = w.by /\ (v.text = w.text \/ v.text = "masked")
Masked(f, g) == DOMAIN f = DOMAIN g /\ \A k \in DOMAIN f : Same(f[k], g[k])

LEMMA RestrictFields ==
  ASSUME NEW f \in FieldMaps, NEW S \in SUBSET DOMAIN f
  PROVE  /\ Restrict(f, S) \in FieldMaps /\ DOMAIN Restrict(f, S) = S
         /\ \A k \in S : Restrict(f, S)[k] = f[k]
BY FieldsAre DEF Restrict

LEMMA WithFields ==
  ASSUME NEW f \in FieldMaps, NEW k \in Keys, NEW v \in Values
  PROVE  With(f, k, v) \in FieldMaps
<1>1. With(f, k, v) \in [DOMAIN f \cup {k} -> Values]
  BY FieldsAre DEF With
<1>. QED
  BY <1>1, FieldsAre

LEMMA NoFieldsAre == NoFields \in FieldMaps /\ DOMAIN NoFields = {}
<1>1. NoFields \in [{} -> Values] /\ DOMAIN NoFields = {}
  BY DEF NoFields
<1>. QED
  BY <1>1, FieldsAre

\* The maskers keep keys and authors; each leaves what it says of the texts.
LEMMA RegexMasks ==
  ASSUME NEW f \in FieldMaps
  PROVE  /\ MaskRegex(f) \in FieldMaps /\ Masked(MaskRegex(f), f)
         /\ \A k \in DOMAIN f : MaskRegex(f)[k].text # "card"
<1>. DEFINE g == MaskRegex(f)
<1>1. DOMAIN g = DOMAIN f
  BY DEF MaskRegex
<1>2. ASSUME NEW k \in DOMAIN f
      PROVE  g[k] \in Values /\ Same(g[k], f[k]) /\ g[k].text # "card"
  <2>1. f[k] \in Values
    BY FieldsAre
  <2>2. g[k] = IF f[k].text = "card" THEN [f[k] EXCEPT !.text = "masked"] ELSE f[k]
    BY DEF MaskRegex
  <2>. HIDE DEF g
  <2>. QED
    BY <2>1, <2>2 DEF Values, Same, AllTexts
<1>3. g \in [DOMAIN f -> Values]
  BY <1>2 DEF MaskRegex
<1>. HIDE DEF g
<1>4. g \in FieldMaps
  BY <1>3, FieldsAre
<1>5. Masked(g, f)
  BY <1>1, <1>2 DEF Masked
<1>. QED
  BY <1>2, <1>4, <1>5 DEF g

LEMMA PIIMasks ==
  ASSUME NEW f \in FieldMaps
  PROVE  /\ MaskPII(f) \in FieldMaps /\ Masked(MaskPII(f), f)
         /\ \A k \in DOMAIN f :
              /\ MaskPII(f)[k].text = f[k].text \/ MaskPII(f)[k].text = "masked"
              /\ IF k \in Secrets THEN MaskPII(f)[k].text \in {"number", "struct", "masked"}
                 ELSE MaskPII(f)[k].text \in {"plain", "number", "masked"}
<1>. DEFINE g == MaskPII(f)
<1>1. DOMAIN g = DOMAIN f
  BY DEF MaskPII
<1>2. ASSUME NEW k \in DOMAIN f
      PROVE  /\ g[k] \in Values /\ Same(g[k], f[k])
             /\ IF k \in Secrets THEN g[k].text \in {"number", "struct", "masked"}
                ELSE g[k].text \in {"plain", "number", "masked"}
  <2>1. f[k] \in Values
    BY FieldsAre
  <2>2. g[k] = IF \/ k \in Secrets /\ f[k].text \notin {"number", "struct"}
                  \/ k \notin Secrets /\ f[k].text \in {"card", "national", "struct"}
               THEN [f[k] EXCEPT !.text = "masked"] ELSE f[k]
    BY DEF MaskPII
  <2>. HIDE DEF g
  <2>. QED
    BY <2>1, <2>2 DEF Values, Same, AllTexts
<1>3. g \in [DOMAIN f -> Values]
  BY <1>2 DEF MaskPII
<1>. HIDE DEF g
<1>4. g \in FieldMaps
  BY <1>3, FieldsAre
<1>5. Masked(g, f)
  BY <1>1, <1>2 DEF Masked
<1>. QED
  BY <1>2, <1>4, <1>5 DEF g, Same

\* All maskers together.
LEMMA FieldsMasked ==
  ASSUME NEW f \in FieldMaps
  PROVE  /\ MaskFields(f) \in FieldMaps /\ Masked(MaskFields(f), f)
         /\ "regex" \in maskers => \A k \in DOMAIN f : MaskFields(f)[k].text # "card"
         /\ "pii" \in maskers /\ enabled =>
              \A k \in DOMAIN f : IF k \in Secrets THEN MaskFields(f)[k].text \in {"number", "struct", "masked"}
                                  ELSE MaskFields(f)[k].text \in {"plain", "number", "masked"}
<1>. DEFINE g == IF "regex" \in maskers THEN MaskRegex(f) ELSE f
            h == MaskFields(f)
<1>1. /\ g \in FieldMaps /\ DOMAIN g = DOMAIN f /\ \A k \in DOMAIN f : Same(g[k], f[k])
      /\ "regex" \in maskers => \A k \in DOMAIN f : g[k].text # "card"
  BY RegexMasks DEF Masked, Same
<1>2. h = IF "pii" \in maskers /\ enabled THEN MaskPII(g) ELSE g
  BY DEF MaskFields
<1>. HIDE DEF g, h
<1>3. CASE "pii" \in maskers /\ enabled
  <2>1. /\ h \in FieldMaps /\ DOMAIN h = DOMAIN f
        /\ \A k \in DOMAIN f :
             /\ Same(h[k], g[k]) /\ (h[k].text = g[k].text \/ h[k].text = "masked")
             /\ IF k \in Secrets THEN h[k].text \in {"number", "struct", "masked"}
                ELSE h[k].text \in {"plain", "number", "masked"}
    BY <1>1, <1>2, <1>3, PIIMasks DEF Masked
  <2>. QED
    BY <1>1, <2>1 DEF Masked, Same, h
<1>4. CASE ~("pii" \in maskers /\ enabled)
  BY <1>1, <1>2, <1>4 DEF Masked, h
<1>. QED
  BY <1>3, <1>4

----------------------------------------------------------------------------
(* The invariants.                                                         *)

\* A strategy object has the fields its logger was derived with; only those of the shared
\* logger may be fewer.
Derived ==
  \A l \in 1..made : Part(base[l], given[l]) /\ (l # Root => base[l] = given[l])

\* What LogWithSecurity took from the shared logger.
Borrowed ==
  \A t \in Threads : InSecured(t) => call[t].logger = Root /\ Part(call[t].kept, given[Root])

\* The parts of an entry on its way from a logger with fields g: its ids at the top are
\* untouched strings, ids among its fields are none, and those are as they were attached, or
\* masked.
LineOf(c, g) ==
  /\ \A k \in DOMAIN c.top :
       k \in DOMAIN g /\ c.top[k] = g[k] /\ k \in Ids /\ g[k].text \notin {"number", "struct"}
  /\ \A k \in DOMAIN c.fields :
       k \in DOMAIN g /\ Same(c.fields[k], g[k]) /\ (k \in Ids => g[k].text \in {"number", "struct"})
  /\ c.logger # Root => DOMAIN g \subseteq DOMAIN c.top \cup DOMAIN c.fields

Lines ==
  \A t \in Threads : pc[t] \in {"process", "write"} =>
    call[t].logger \in 1..made /\ LineOf(call[t], given[call[t].logger])

LinesInv == Derived /\ Borrowed /\ Lines

\* A masker that covers an entry is at work until the entry has passed the maskers.
Covers ==
  \A t \in Threads :
    /\ kind = "unified" => covered[t] = {} /\ ~InSecured(t)
    /\ pc[t] = "process" => covered[t] \subseteq maskers /\ ("pii" \in covered[t] => enabled)

MaskedInv == Covers /\ RawOnlyInIds

\* Secured calls that run together know it; one that runs alone finds the fields of the
\* shared logger as it has set them, and shows no others.
Alone ==
  /\ \A t, o \in Threads : t # o /\ InSecured(t) /\ InSecured(o) => t \in overlapped
  /\ \A t \in Threads \ overlapped :
       /\ pc[t] = "emit" => base[Root] = call[t].kept
       /\ pc[t] \in {"process", "write"} /\ call[t].user # NoUser =>
            DOMAIN call[t].top \cup DOMAIN call[t].fields \subseteq DOMAIN call[t].kept

SecuredInv == Alone /\ Borrowed

\* The record of a secured call is as far from the end of the trail as records came after it.
Audited ==
  \A t \in Threads : pc[t] \in {"install", "emit", "process", "write"} /\ call[t].user # NoUser =>
    LET seen == DOMAIN call[t].kept \cap Personal
    IN  \/ seen = {} \/ since[t] = AuditCap
        \/ /\ since[t] < Len(audit)
           /\ audit[Len(audit) - since[t]] = [user |-> call[t].user, keys |-> seen]

LoggersInv == TypeOK /\ LinesInv /\ MaskedInv /\ Alone /\ Audited

----------------------------------------------------------------------------
(* Entries.                                                                *)

Split(c, f) == [c EXCEPT !.top = Restrict(f, Promoted(f)), !.fields = Restrict(f, DOMAIN f \ Promoted(f))]
Called(t, level) == [NoCall EXCEPT !.logger = using[t], !.level = level]

\* An entry has every field of its logger once.
LEMMA SplitIs ==
  ASSUME NEW c \in Calls, NEW f \in FieldMaps
  PROVE  LET e == Split(c, f)
         IN  /\ e \in Calls /\ e.logger = c.logger /\ e.user = c.user /\ e.kept = c.kept
             /\ DOMAIN e.top = Promoted(f) /\ DOMAIN e.fields = DOMAIN f \ Promoted(f)
             /\ \A k \in DOMAIN e.top : e.top[k] = f[k]
             /\ \A k \in DOMAIN e.fields : e.fields[k] = f[k]
<1>. DEFINE a == Restrict(f, Promoted(f))
            b == Restrict(f, DOMAIN f \ Promoted(f))
            e == Split(c, f)
<1>1. Promoted(f) \in SUBSET DOMAIN f /\ DOMAIN f \ Promoted(f) \in SUBSET DOMAIN f
  BY DEF Promoted
<1>2. /\ a \in FieldMaps /\ DOMAIN a = Promoted(f) /\ \A k \in Promoted(f) : a[k] = f[k]
      /\ b \in FieldMaps /\ DOMAIN b = DOMAIN f \ Promoted(f) /\ \A k \in DOMAIN f \ Promoted(f) : b[k] = f[k]
  BY <1>1, RestrictFields
<1>3. e = [c EXCEPT !.top = a, !.fields = b]
  BY DEF Split
<1>. HIDE DEF a, b, e
<1>4. /\ e \in Calls /\ e.logger = c.logger /\ e.user = c.user /\ e.kept = c.kept
      /\ e.top = a /\ e.fields = b
  BY <1>2, <1>3 DEF Calls
<1>5. /\ DOMAIN e.top = Promoted(f) /\ DOMAIN e.fields = DOMAIN f \ Promoted(f)
      /\ \A k \in DOMAIN e.top : e.top[k] = f[k]
      /\ \A k \in DOMAIN e.fields : e.fields[k] = f[k]
  BY <1>2, <1>4
<1>. QED
  BY <1>4, <1>5 DEF e

LEMMA NoCallIs ==
  /\ NoCall \in Calls /\ NoCall.user = NoUser /\ NoCall.logger = Root
  /\ DOMAIN NoCall.top = {} /\ DOMAIN NoCall.fields = {}
BY NoFieldsAre, LoggersAssumption DEF NoCall, Calls, Loggers, Root, Readers

LEMMA MadeLoggers ==
  ASSUME TypeOK
  PROVE  /\ 1..made \subseteq Loggers /\ Root \in 1..made /\ made \in Nat
         /\ \A l \in 1..made : base[l] \in FieldMaps /\ given[l] \in FieldMaps
         /\ \A t \in Threads : using[t] \in 1..made
BY LoggersAssumption DEF TypeOK, Loggers, Root

LEMMA CalledIs ==
  ASSUME TypeOK, NEW t \in Threads, NEW level \in Levels
  PROVE  /\ Called(t, level) \in Calls /\ Called(t, level).logger = using[t]
         /\ Called(t, level).user = NoUser
<1>1. using[t] \in Loggers
  BY MadeLoggers
<1>. QED
  BY <1>1, NoCallIs DEF Called, Calls

\* The steps that make an entry: the level is enabled, or a secured line is emitted.
Makes(t, c) ==
  /\ call' = [call EXCEPT ![t] = Split(c, base[c.logger])]
  /\ UNCHANGED <<kind, base, made, using, given, filters, samplers, maskers, enabled, rules, audit, since, overlapped>>

LEMMA MakesIs ==
  ASSUME TypeOK, NEW t \in Threads, NEW c \in Calls, c.logger \in 1..made, Makes(t, c)
  PROVE  /\ call' \in [Threads -> Calls]
         /\ \A o \in Threads : o # t => call'[o] = call[o]
         /\ call'[t].logger = c.logger /\ call'[t].user = c.user /\ call'[t].kept = c.kept
         /\ LET f == base[c.logger]
            IN  /\ DOMAIN call'[t].top = Promoted(f) /\ DOMAIN call'[t].fields = DOMAIN f \ Promoted(f)
                /\ \A k \in DOMAIN call'[t].top : call'[t].top[k] = f[k]
                /\ \A k \in DOMAIN call'[t].fields : call'[t].fields[k] = f[k]
<1>. DEFINE f == base[c.logger]
            e == Split(c, f)
<1>1. f \in FieldMaps
  BY MadeLoggers
<1>2. call' = [call EXCEPT ![t] = e]
  BY DEF Makes
<1>. HIDE DEF f
<1>3. /\ e \in Calls /\ e.logger = c.logger /\ e.user = c.user /\ e.kept = c.kept
      /\ DOMAIN e.top = Promoted(f) /\ DOMAIN e.fields = DOMAIN f \ Promoted(f)
      /\ \A k \in DOMAIN e.top : e.top[k] = f[k]
      /\ \A k \in DOMAIN e.fields : e.fields[k] = f[k]
  BY <1>1, SplitIs
<1>. HIDE DEF e
<1>4. call'[t] = e /\ call' \in [Threads -> Calls] /\ \A o \in Threads : o # t => call'[o] = call[o]
  BY <1>2, <1>3 DEF TypeOK
<1>. QED
  BY <1>3, <1>4 DEF f

LEMMA MakingSteps ==
  ASSUME TypeOK, NEW t \in Threads
  PROVE  /\ \A level \in Levels : LogUnified(t, level) => Makes(t, Called(t, level)) /\ UNCHANGED covered
         /\ \A level \in Levels : Log(t, level) => Makes(t, Called(t, level))
         /\ Emit(t) => Makes(t, call[t])
<1>1. ASSUME NEW level \in Levels, LogUnified(t, level) PROVE Makes(t, Called(t, level)) /\ UNCHANGED covered
  <2>. DEFINE f == base[using[t]]
  <2>1. call' = [call EXCEPT ![t] =
           [NoCall EXCEPT !.logger = using[t], !.level = level,
                          !.top = Restrict(f, Promoted(f)),
                          !.fields = Restrict(f, DOMAIN f \ Promoted(f))]]
    BY <1>1 DEF LogUnified
  <2>2. Called(t, level).logger = using[t]
    BY CalledIs
  <2>3. [NoCall EXCEPT !.logger = using[t], !.level = level, !.top = Restrict(f, Promoted(f)),
                       !.fields = Restrict(f, DOMAIN f \ Promoted(f))] = Split(Called(t, level), f)
    BY DEF Split, Called, NoCall
  <2>. QED
    BY <1>1, <2>1, <2>2, <2>3 DEF Makes, LogUnified
<1>2. ASSUME NEW level \in Levels, Log(t, level) PROVE Makes(t, Called(t, level))
  BY <1>2 DEF Log, Snapshot, Makes, Split, Called
<1>3. ASSUME Emit(t) PROVE Makes(t, call[t])
  BY <1>3 DEF Emit, Snapshot, Makes, Split
<1>. QED
  BY <1>1, <1>2, <1>3

----------------------------------------------------------------------------
(* Steps.                                                                  *)

\* The steps that derive a logger.
Derives(t) == \E l \in {Root, using[t]} : (\E k \in Keys, x \in Texts : Derive(t, l, k, x)) \/ DeriveNothing(t, l)

\* The steps that change strategies and rules, and what they leave alone.
Sets ==
  \/ \E r \in Ranges : AddFilter(r)
  \/ \E s \in {"some", "none"} : AddSampler(s)
  \/ \E m \in {"regex", "pii"} \ maskers : AddMasker(m)
  \/ RemoveStrategy \/ Configure
  \/ \E k \in Keys, r \in Rules : SetFieldAccess(k, r)

LEMMA NextIs ==
  Next <=> \/ \E t \in Threads :
                \/ Derives(t)
                \/ \E level \in Levels : Log(t, level) \/ LogUnified(t, level)
                \/ ProcessEntry(t) \/ Write(t)
                \/ \E u \in Users : LogWithSecurity(t, u)
                \/ FilterFieldsByAccess(t) \/ WithOnlyFields(t) \/ Emit(t)
           \/ Sets
BY DEF Next, Derives, Sets

LEMMA DerivesIs ==
  ASSUME TypeOK, NEW t \in Threads, Derives(t)
  PROVE  /\ UNCHANGED <<kind, strategies, security, threads>> /\ pc[t] = "idle"
         /\ \/ /\ UNCHANGED <<base, made, given>>
               /\ \E l \in 1..made : using' = [using EXCEPT ![t] = l]
            \/ /\ made' = made + 1 /\ made' \in Loggers
               /\ using' = [using EXCEPT ![t] = made']
               /\ \E f \in FieldMaps : base' = [base EXCEPT ![made'] = f] /\ given' = [given EXCEPT ![made'] = f]
<1>1. PICK l \in {Root, using[t]} : (\E k \in Keys, x \in Texts : Derive(t, l, k, x)) \/ DeriveNothing(t, l)
  BY DEF Derives
<1>2. l \in 1..made /\ base[l] \in FieldMaps
  BY MadeLoggers
<1>3. ASSUME NEW k \in Keys, NEW x \in Texts, Derive(t, l, k, x)
      PROVE  /\ UNCHANGED <<kind, strategies, security, threads>> /\ pc[t] = "idle"
             /\ made' = made + 1 /\ made' \in Loggers
             /\ using' = [using EXCEPT ![t] = made']
             /\ \E f \in FieldMaps : base' = [base EXCEPT ![made'] = f] /\ given' = [given EXCEPT ![made'] = f]
  <2>. DEFINE f == With(base[l], k, [by |-> t, text |-> x])
  <2>1. f \in FieldMaps
    <3>1. [by |-> t, text |-> x] \in Values
      BY LoggersAssumption DEF Values
    <3>. QED
      BY <1>2, <3>1, WithFields
  <2>2. base' = [base EXCEPT ![made'] = f] /\ given' = [given EXCEPT ![made'] = f]
    BY <1>3 DEF Derive, NewStrategy
  <2>3. \E g \in FieldMaps : base' = [base EXCEPT ![made'] = g] /\ given' = [given EXCEPT ![made'] = g]
    <3>. HIDE DEF f
    <3>. QED
      BY <2>1, <2>2
  <2>4. made < MaxLoggers /\ made' = made + 1
    BY <1>3 DEF Derive, NewStrategy
  <2>5. made' \in Loggers
    BY <2>4, LoggersAssumption DEF TypeOK, Loggers
  <2>6. /\ UNCHANGED <<kind, strategies, security, threads>> /\ pc[t] = "idle"
        /\ using' = [using EXCEPT ![t] = made']
    BY <1>3 DEF Derive, NewStrategy
  <2>. QED
    BY <2>3, <2>4, <2>5, <2>6
<1>4. ASSUME DeriveNothing(t, l)
      PROVE  /\ UNCHANGED <<kind, strategies, security, threads>> /\ pc[t] = "idle"
             /\ UNCHANGED <<base, made, given>> /\ using' = [using EXCEPT ![t] = l]
  BY <1>4 DEF DeriveNothing
<1>5. CASE \E k \in Keys, x \in Texts : Derive(t, l, k, x)
  BY <1>3, <1>5
<1>6. CASE DeriveNothing(t, l)
  BY <1>2, <1>4, <1>6
<1>. QED
  BY <1>1, <1>5, <1>6

\* Which maskers still cover an entry once strategies have changed.
LEMMA SetsIs ==
  ASSUME TypeOK, Sets
  PROVE  /\ UNCHANGED <<objects, pc, call, overlapped, audit, since>>
         /\ filters' \subseteq Ranges /\ samplers' \subseteq {"all", "some", "none"}
         /\ maskers' \subseteq {"regex", "pii"} /\ enabled' \in BOOLEAN /\ rules' \in [Keys -> Rules]
         /\ covered' \in [Threads -> SUBSET {"regex", "pii"}]
         /\ \A t \in Threads :
              /\ covered'[t] \subseteq covered[t]
              /\ covered[t] \subseteq maskers => covered'[t] \subseteq maskers'
              /\ ("pii" \in covered[t] => enabled) => ("pii" \in covered'[t] => enabled')
<1>. USE DEF TypeOK
<1>1. ASSUME StillCovered, maskers' \subseteq {"regex", "pii"}
      PROVE  /\ covered' \in [Threads -> SUBSET {"regex", "pii"}]
             /\ \A t \in Threads :
                  /\ covered'[t] \subseteq covered[t]
                  /\ covered[t] \subseteq maskers => covered'[t] \subseteq maskers'
                  /\ ("pii" \in covered[t] => enabled) => ("pii" \in covered'[t] => enabled')
  BY <1>1 DEF StillCovered
<1>2. ASSUME NEW r \in Ranges, AddFilter(r)
      PROVE  filters' \subseteq Ranges /\ UNCHANGED <<objects, samplers, maskers, enabled, security, threads>>
  BY <1>2 DEF AddFilter
<1>3. ASSUME NEW x \in {"some", "none"}, AddSampler(x)
      PROVE  /\ samplers' \subseteq {"all", "some", "none"}
             /\ UNCHANGED <<objects, filters, maskers, enabled, security, threads>>
  BY <1>3 DEF AddSampler
<1>4. ASSUME NEW m \in {"regex", "pii"} \ maskers, AddMasker(m)
      PROVE  /\ maskers \subseteq maskers' /\ maskers' \subseteq {"regex", "pii"}
             /\ UNCHANGED <<objects, filters, samplers, enabled, security, threads>>
  BY <1>4 DEF AddMasker
<1>5. ASSUME RemoveStrategy
      PROVE  /\ filters' \subseteq Ranges /\ samplers' \subseteq {"all", "some", "none"}
             /\ maskers' \subseteq {"regex", "pii"} /\ StillCovered
             /\ UNCHANGED <<objects, enabled, security, pc, call, overlapped>>
  BY <1>5 DEF RemoveStrategy
<1>6. ASSUME Configure
      PROVE  /\ enabled' \in BOOLEAN /\ StillCovered
             /\ UNCHANGED <<objects, filters, samplers, maskers, security, pc, call, overlapped>>
  BY <1>6 DEF Configure
<1>7. ASSUME NEW k \in Keys, NEW r \in Rules, SetFieldAccess(k, r)
      PROVE  rules' \in [Keys -> Rules] /\ UNCHANGED <<objects, strategies, audit, since, threads>>
  BY <1>7 DEF SetFieldAccess
<1>8. CASE \E r \in Ranges : AddFilter(r)
  BY <1>2, <1>8
<1>9. CASE \E x \in {"some", "none"} : AddSampler(x)
  BY <1>3, <1>9
<1>10. CASE \E m \in {"regex", "pii"} \ maskers : AddMasker(m)
  BY <1>4, <1>10
<1>11. CASE RemoveStrategy
  BY <1>1, <1>5, <1>11
<1>12. CASE Configure
  BY <1>1, <1>6, <1>12
<1>13. CASE \E k \in Keys, r \in Rules : SetFieldAccess(k, r)
  BY <1>7, <1>13
<1>. QED
  BY <1>8, <1>9, <1>10, <1>11, <1>12, <1>13 DEF Sets

\* The maskers run, or the entry is dropped.
LEMMA ProcessIs ==
  ASSUME TypeOK, NEW t \in Threads, ProcessEntry(t)
  PROVE  /\ UNCHANGED <<objects, strategies, security, overlapped, covered>> /\ pc[t] = "process"
         /\ call' \in [Threads -> Calls] /\ \A o \in Threads : o # t => call'[o] = call[o]
         /\ \/ /\ pc' = [pc EXCEPT ![t] = "write"]
               /\ call'[t].fields = MaskFields(call[t].fields)
               /\ call'[t].logger = call[t].logger /\ call'[t].user = call[t].user
               /\ call'[t].kept = call[t].kept /\ call'[t].top = call[t].top
            \/ pc' = [pc EXCEPT ![t] = "idle"] /\ call'[t] = NoCall
<1>1. /\ UNCHANGED <<objects, strategies, security, overlapped, covered>> /\ pc[t] = "process"
      /\ \/ call' = [call EXCEPT ![t].fields = MaskFields(@)] /\ pc' = [pc EXCEPT ![t] = "write"]
         \/ call' = [call EXCEPT ![t] = NoCall] /\ pc' = [pc EXCEPT ![t] = "idle"]
  BY DEF ProcessEntry
<1>2. call \in [Threads -> Calls] /\ call[t] \in Calls /\ call[t].fields \in FieldMaps
  BY DEF TypeOK, Calls
<1>. DEFINE h == MaskFields(call[t].fields)
<1>3. h \in FieldMaps
  BY <1>2, FieldsMasked
<1>4. CASE call' = [call EXCEPT ![t].fields = MaskFields(@)] /\ pc' = [pc EXCEPT ![t] = "write"]
  <2>1. call' = [call EXCEPT ![t] = [call[t] EXCEPT !.fields = h]]
    BY <1>2, <1>4
  <2>. HIDE DEF h
  <2>2. [call[t] EXCEPT !.fields = h] \in Calls
    BY <1>2, <1>3 DEF Calls
  <2>3. /\ call' \in [Threads -> Calls] /\ \A o \in Threads : o # t => call'[o] = call[o]
        /\ call'[t] = [call[t] EXCEPT !.fields = h]
    BY <1>2, <2>1, <2>2
  <2>4. /\ call'[t].fields = h /\ call'[t].logger = call[t].logger /\ call'[t].user = call[t].user
        /\ call'[t].kept = call[t].kept /\ call'[t].top = call[t].top
    BY <1>2, <2>3 DEF Calls
  <2>. QED
    BY <1>1, <1>4, <2>3, <2>4 DEF h
<1>5. CASE call' = [call EXCEPT ![t] = NoCall] /\ pc' = [pc EXCEPT ![t] = "idle"]
  BY <1>1, <1>2, <1>5, NoCallIs
<1>. QED
  BY <1>1, <1>4, <1>5

LEMMA WriteIs ==
  ASSUME TypeOK, NEW t \in Threads, Write(t)
  PROVE  /\ UNCHANGED <<objects, filters, samplers, maskers, enabled, rules, audit>> /\ pc[t] = "write"
         /\ pc' = [pc EXCEPT ![t] = "idle"] /\ overlapped' = overlapped \ {t}
         /\ covered' = [covered EXCEPT ![t] = {}] /\ since' = [since EXCEPT ![t] = 0]
         /\ call' \in [Threads -> Calls] /\ call'[t] = NoCall
         /\ \A o \in Threads : o # t => call'[o] = call[o]
<1>1. call' = [call EXCEPT ![t] = NoCall] /\ call \in [Threads -> Calls]
  BY DEF Write, TypeOK
<1>2. call' \in [Threads -> Calls] /\ call'[t] = NoCall /\ \A o \in Threads : o # t => call'[o] = call[o]
  BY <1>1, NoCallIs
<1>. QED
  BY <1>2 DEF Write

LEMMA LogWithSecurityIs ==
  ASSUME TypeOK, NEW t \in Threads, NEW u \in Users, LogWithSecurity(t, u)
  PROVE  /\ UNCHANGED <<objects, strategies, security, covered>> /\ pc[t] = "idle"
         /\ pc' = [pc EXCEPT ![t] = "filter"]
         /\ call' \in [Threads -> Calls] /\ \A o \in Threads : o # t => call'[o] = call[o]
         /\ call'[t].logger = Root /\ call'[t].user = u /\ call'[t].kept = base[Root]
         /\ DOMAIN call'[t].top = {} /\ DOMAIN call'[t].fields = {}
         /\ overlapped \subseteq overlapped' /\ overlapped' \subseteq Threads
         /\ \A o \in Threads : o # t /\ InSecured(o) => o \in overlapped' /\ t \in overlapped'
<1>. DEFINE c == [NoCall EXCEPT !.user = u, !.kept = base[Root]]
<1>1. base[Root] \in FieldMaps
  BY MadeLoggers
<1>2. /\ c \in Calls /\ c.logger = Root /\ c.user = u /\ c.kept = base[Root]
      /\ DOMAIN c.top = {} /\ DOMAIN c.fields = {}
  <2>1. u \in Readers
    BY DEF Readers
  <2>2. c \in Calls /\ c.logger = NoCall.logger /\ c.user = u /\ c.kept = base[Root]
        /\ c.top = NoCall.top /\ c.fields = NoCall.fields
    BY <1>1, <2>1, NoCallIs DEF Calls
  <2>. QED
    BY <2>2, NoCallIs
<1>3. call' = [call EXCEPT ![t] = c] /\ call \in [Threads -> Calls]
  BY DEF LogWithSecurity, TypeOK
<1>. HIDE DEF c
<1>4. call' \in [Threads -> Calls] /\ call'[t] = c /\ \A o \in Threads : o # t => call'[o] = call[o]
  BY <1>2, <1>3
<1>5. /\ overlapped \subseteq overlapped' /\ overlapped' \subseteq Threads
      /\ \A o \in Threads : o # t /\ InSecured(o) => o \in overlapped' /\ t \in overlapped'
  <2>. DEFINE others == {o \in Threads \ {t} : InSecured(o)}
  <2>1. overlapped' = overlapped \cup others \cup IF others = {} THEN {} ELSE {t}
    BY DEF LogWithSecurity
  <2>2. others \subseteq Threads /\ \A o \in Threads : o # t /\ InSecured(o) => o \in others
    OBVIOUS
  <2>. HIDE DEF others
  <2>. QED
    BY <2>1, <2>2 DEF TypeOK
<1>6. /\ UNCHANGED <<objects, strategies, security, covered>> /\ pc[t] = "idle"
      /\ pc' = [pc EXCEPT ![t] = "filter"]
  BY DEF LogWithSecurity
<1>. QED
  BY <1>2, <1>4, <1>5, <1>6

\* The trail and how far each record is from its end.
LEMMA FilterIs ==
  ASSUME TypeOK, NEW t \in Threads, FilterFieldsByAccess(t)
  PROVE  /\ UNCHANGED <<objects, strategies, rules, overlapped, covered>> /\ pc[t] = "filter"
         /\ pc' = [pc EXCEPT ![t] = "install"]
         /\ call' \in [Threads -> Calls] /\ \A o \in Threads : o # t => call'[o] = call[o]
         /\ call'[t].logger = call[t].logger /\ call'[t].user = call[t].user
         /\ call'[t].top = call[t].top /\ call'[t].fields = call[t].fields
         /\ Part(call'[t].kept, call[t].kept)
         /\ LET seen == DOMAIN call'[t].kept
            IN  IF seen \cap Personal # {}
                THEN RecordAudit(t, [user |-> call[t].user, keys |-> seen \cap Personal])
                ELSE UNCHANGED <<audit, since>>
<1>. DEFINE c == call[t]
            seen == {k \in DOMAIN c.kept : CheckFieldAccess(rules[k], c.user)}
            r == Restrict(c.kept, seen)
<1>1. call \in [Threads -> Calls] /\ c \in Calls /\ c.kept \in FieldMaps
  BY DEF TypeOK, Calls
<1>2. /\ call' = [call EXCEPT ![t].kept = r] /\ pc[t] = "filter" /\ pc' = [pc EXCEPT ![t] = "install"]
      /\ UNCHANGED <<objects, strategies, rules, overlapped, covered>>
      /\ IF seen \cap Personal # {}
         THEN RecordAudit(t, [user |-> c.user, keys |-> seen \cap Personal])
         ELSE UNCHANGED <<audit, since>>
  BY DEF FilterFieldsByAccess
<1>3. seen \subseteq DOMAIN c.kept
  OBVIOUS
<1>. HIDE DEF seen
<1>4. r \in FieldMaps /\ DOMAIN r = seen /\ \A k \in seen : r[k] = c.kept[k]
  BY <1>1, <1>3, RestrictFields
<1>5. call' = [call EXCEPT ![t] = [c EXCEPT !.kept = r]]
  BY <1>1, <1>2
<1>. HIDE DEF r
<1>6. /\ [c EXCEPT !.kept = r] \in Calls
      /\ [c EXCEPT !.kept = r].logger = c.logger /\ [c EXCEPT !.kept = r].user = c.user
      /\ [c EXCEPT !.kept = r].top = c.top /\ [c EXCEPT !.kept = r].fields = c.fields
      /\ [c EXCEPT !.kept = r].kept = r
  BY <1>1, <1>4 DEF Calls
<1>7. /\ call' \in [Threads -> Calls] /\ call'[t] = [c EXCEPT !.kept = r]
      /\ \A o \in Threads : o # t => call'[o] = call[o]
  BY <1>1, <1>5, <1>6
<1>8. Part(r, c.kept)
  BY <1>3, <1>4 DEF Part
<1>. QED
  BY <1>2, <1>4, <1>6, <1>7, <1>8

LEMMA WithOnlyFieldsIs ==
  ASSUME TypeOK, NEW t \in Threads, WithOnlyFields(t)
  PROVE  /\ UNCHANGED <<kind, made, using, given, strategies, security, call, overlapped, covered>>
         /\ pc[t] = "install" /\ pc' = [pc EXCEPT ![t] = "emit"]
         /\ call[t].kept \in FieldMaps
         /\ base' \in [Loggers -> FieldMaps] /\ base'[Root] = call[t].kept
         /\ \A l \in Loggers : l # Root => base'[l] = base[l]
<1>1. call[t].kept \in FieldMaps /\ base \in [Loggers -> FieldMaps] /\ Root \in Loggers
  BY MadeLoggers DEF TypeOK, Calls
<1>2. base' = [base EXCEPT ![Root] = call[t].kept]
  BY DEF WithOnlyFields
<1>3. /\ base' \in [Loggers -> FieldMaps] /\ base'[Root] = call[t].kept
      /\ \A l \in Loggers : l # Root => base'[l] = base[l]
  BY <1>1, <1>2
<1>. QED
  BY <1>1, <1>3 DEF WithOnlyFields

----------------------------------------------------------------------------
(* Types are kept.                                                         *)

LEMMA InitTypes == Init => TypeOK
<1>. SUFFICES ASSUME Init PROVE TypeOK
  OBVIOUS
<1>1. RootFields \in FieldMaps
  <2>1. RootFields \in [DOMAIN RootFields -> Values]
    BY LoggersAssumption DEF Values
  <2>. QED
    BY <2>1, LoggersAssumption, FieldsAre
<1>2. base \in [Loggers -> FieldMaps] /\ given \in [Loggers -> FieldMaps]
  BY <1>1, NoFieldsAre DEF Init
<1>3. made \in Loggers /\ using \in [Threads -> 1..made]
  BY LoggersAssumption DEF Init, Loggers, Root
<1>4. rules \in [Keys -> Rules]
  BY LoggersAssumption DEF Init
<1>5. /\ audit \in Seq([user : Readers, keys : SUBSET Keys]) /\ Len(audit) <= AuditCap
      /\ since \in [Threads -> 0..AuditCap]
  BY LoggersAssumption DEF Init
<1>6. /\ call \in [Threads -> Calls]
      /\ \A t \in Threads : DOMAIN call[t].top \cup DOMAIN call[t].fields = {}
  BY NoCallIs DEF Init
<1>. QED
  BY <1>2, <1>3, <1>4, <1>5, <1>6 DEF Init, TypeOK

\* The trail is trimmed to its cap.
LEMMA AuditKept ==
  ASSUME TypeOK, NEW t \in Threads, NEW e \in [user : Readers, keys : SUBSET Keys], RecordAudit(t, e)
  PROVE  /\ audit' \in Seq([user : Readers, keys : SUBSET Keys]) /\ Len(audit') <= AuditCap
         /\ Len(audit') = IF Len(audit) < AuditCap THEN Len(audit) + 1 ELSE Len(audit)
         /\ audit'[Len(audit')] = e /\ Len(audit') > 0
         /\ Len(audit) < AuditCap => \A i \in 1..Len(audit) : audit'[i] = audit[i]
         /\ Len(audit) = AuditCap => \A i \in 2..Len(audit) : audit'[i - 1] = audit[i]
         /\ since' \in [Threads -> 0..AuditCap] /\ since'[t] = 0
         /\ \A o \in Threads : o # t => since'[o] = IF since[o] < AuditCap THEN since[o] + 1 ELSE since[o]
<1>. DEFINE S == [user : Readers, keys : SUBSET Keys]
<1>1. audit \in Seq(S) /\ e \in S /\ Len(audit) \in Nat /\ Len(audit) <= AuditCap /\ AuditCap \in Nat \ {0}
  BY LoggersAssumption DEF TypeOK
<1>2. audit' = IF Len(audit) < AuditCap THEN Append(audit, e) ELSE Append(Tail(audit), e)
  BY DEF RecordAudit
<1>. HIDE DEF S
<1>5. /\ since' \in [Threads -> 0..AuditCap] /\ since'[t] = 0
      /\ \A o \in Threads : o # t => since'[o] = IF since[o] < AuditCap THEN since[o] + 1 ELSE since[o]
  BY <1>1 DEF RecordAudit, Recorded, TypeOK
<1>6. /\ audit' \in Seq(S) /\ Len(audit') <= AuditCap
      /\ Len(audit') = IF Len(audit) < AuditCap THEN Len(audit) + 1 ELSE Len(audit)
      /\ audit'[Len(audit')] = e /\ Len(audit') > 0
      /\ Len(audit) < AuditCap => \A i \in 1..Len(audit) : audit'[i] = audit[i]
      /\ Len(audit) = AuditCap => \A i \in 2..Len(audit) : audit'[i - 1] = audit[i]
  <2>1. CASE Len(audit) < AuditCap
    <3>1. /\ Append(audit, e) \in Seq(S) /\ Len(Append(audit, e)) = Len(audit) + 1
          /\ \A i \in 1..Len(audit) : Append(audit, e)[i] = audit[i]
          /\ Append(audit, e)[Len(audit) + 1] = e
      BY <1>1, AppendProperties
    <3>. QED
      BY <1>1, <1>2, <2>1, <3>1
  <2>2. CASE Len(audit) = AuditCap
    <3>. DEFINE r == Tail(audit)
    <3>1. audit # <<>>
      BY <1>1, <2>2
    <3>2. /\ r \in Seq(S) /\ Len(r) = Len(audit) - 1
          /\ \A i \in 1..Len(r) : r[i] = audit[i + 1]
      BY <1>1, <3>1, HeadTailProperties
    <3>. HIDE DEF r
    <3>3. /\ Append(r, e) \in Seq(S) /\ Len(Append(r, e)) = Len(r) + 1
          /\ \A i \in 1..Len(r) : Append(r, e)[i] = r[i]
          /\ Append(r, e)[Len(r) + 1] = e
      BY <1>1, <3>2, AppendProperties
    <3>4. audit' = Append(r, e)
      BY <1>1, <1>2, <2>2 DEF r
    <3>5. audit' \in Seq(S) /\ Len(audit') = Len(audit) /\ audit'[Len(audit')] = e
      BY <1>1, <3>2, <3>3, <3>4
    <3>6. ASSUME NEW i \in 2..Len(audit) PROVE audit'[i - 1] = audit[i]
      <4>1. i - 1 \in 1..Len(r) /\ (i - 1) + 1 = i
        BY <1>1, <3>2
      <4>. QED
        BY <3>2, <3>3, <3>4, <4>1
    <3>. QED
      BY <1>1, <2>2, <3>5, <3>6
  <2>. QED
    BY <1>1, <2>1, <2>2
<1>. QED
  BY <1>5, <1>6 DEF S

LEMMA NextTypes == TypeOK /\ Borrowed /\ [Next]_vars => TypeOK'
<1>. SUFFICES ASSUME TypeOK, Borrowed, [Next]_vars PROVE TypeOK'
  OBVIOUS
<1>0. /\ pc \in [Threads -> {"idle", "process", "write", "filter", "install", "emit"}]
      /\ \A t \in Threads : DOMAIN call[t].top \cup DOMAIN call[t].fields # {} => pc[t] \in {"process", "write"}
  BY DEF TypeOK
<1>1. ASSUME NEW t \in Threads, Derives(t) PROVE TypeOK'
  <2>1. UNCHANGED <<kind, strategies, security, threads>>
    BY <1>1, DerivesIs
  <2>2. /\ made' \in Loggers /\ using' \in [Threads -> 1..made']
        /\ base' \in [Loggers -> FieldMaps] /\ given' \in [Loggers -> FieldMaps]
    <3>1. CASE UNCHANGED <<base, made, given>> /\ \E l \in 1..made : using' = [using EXCEPT ![t] = l]
      BY <3>1 DEF TypeOK
    <3>2. CASE /\ made' = made + 1 /\ made' \in Loggers
               /\ using' = [using EXCEPT ![t] = made']
               /\ \E f \in FieldMaps : base' = [base EXCEPT ![made'] = f] /\ given' = [given EXCEPT ![made'] = f]
      <4>1. base' \in [Loggers -> FieldMaps] /\ given' \in [Loggers -> FieldMaps]
        BY <3>2 DEF TypeOK
      <4>2. 1..made \subseteq 1..made' /\ made' \in 1..made'
        BY <3>2, MadeLoggers
      <4>3. using' \in [Threads -> 1..made']
        BY <3>2, <4>2 DEF TypeOK
      <4>. QED
        BY <3>2, <4>1, <4>3
    <3>. QED
      BY <1>1, <3>1, <3>2, DerivesIs
  <2>. QED
    BY <2>1, <2>2 DEF TypeOK
<1>2. ASSUME NEW t \in Threads, NEW c \in Calls, c.logger \in 1..made, Makes(t, c),
             pc' \in {[pc EXCEPT ![t] = "process"], [pc EXCEPT ![t] = "write"]},
             covered' \in [Threads -> SUBSET {"regex", "pii"}]
      PROVE  TypeOK'
  <2>1. call' \in [Threads -> Calls] /\ \A o \in Threads : o # t => call'[o] = call[o]
    BY <1>2, MakesIs
  <2>2. /\ pc' \in [Threads -> {"idle", "process", "write", "filter", "install", "emit"}]
        /\ pc'[t] \in {"process", "write"} /\ \A o \in Threads : o # t => pc'[o] = pc[o]
    BY <1>0, <1>2
  <2>3. \A o \in Threads : DOMAIN call'[o].top \cup DOMAIN call'[o].fields # {} => pc'[o] \in {"process", "write"}
    BY <1>0, <2>1, <2>2
  <2>4. UNCHANGED <<kind, base, made, using, given, filters, samplers, maskers, enabled, rules, audit, since, overlapped>>
    BY <1>2 DEF Makes
  <2>. QED
    BY <1>2, <2>1, <2>2, <2>3, <2>4 DEF TypeOK
<1>3. ASSUME NEW t \in Threads, NEW level \in Levels, Log(t, level) \/ LogUnified(t, level) PROVE TypeOK'
  <2>1. Called(t, level) \in Calls /\ Called(t, level).logger \in 1..made
    BY CalledIs, MadeLoggers
  <2>2. CASE Log(t, level)
    <3>1. Makes(t, Called(t, level)) /\ pc' = [pc EXCEPT ![t] = "process"]
      BY <2>2, MakingSteps DEF Log, Snapshot
    <3>2. covered' \in [Threads -> SUBSET {"regex", "pii"}]
      BY <2>2 DEF Log, Snapshot, TypeOK
    <3>. QED
      BY <1>2, <2>1, <3>1, <3>2
  <2>3. CASE LogUnified(t, level)
    <3>1. Makes(t, Called(t, level)) /\ pc' = [pc EXCEPT ![t] = "write"]
      BY <2>3, MakingSteps DEF LogUnified
    <3>2. covered' \in [Threads -> SUBSET {"regex", "pii"}]
      BY <2>3 DEF LogUnified, TypeOK
    <3>. QED
      BY <1>2, <2>1, <3>1, <3>2
  <2>. QED
    BY <1>3, <2>2, <2>3
<1>4. ASSUME NEW t \in Threads, ProcessEntry(t) PROVE TypeOK'
  <2>1. /\ UNCHANGED <<objects, strategies, security, overlapped, covered>>
        /\ call' \in [Threads -> Calls] /\ \A o \in Threads : o # t => call'[o] = call[o]
        /\ \/ pc' = [pc EXCEPT ![t] = "write"]
           \/ pc' = [pc EXCEPT ![t] = "idle"] /\ DOMAIN call'[t].top = {} /\ DOMAIN call'[t].fields = {}
    BY <1>4, ProcessIs, NoCallIs
  <2>2. /\ pc' \in [Threads -> {"idle", "process", "write", "filter", "install", "emit"}]
        /\ \A o \in Threads : DOMAIN call'[o].top \cup DOMAIN call'[o].fields # {} => pc'[o] \in {"process", "write"}
    BY <1>0, <2>1
  <2>. QED
    BY <2>1, <2>2 DEF TypeOK
<1>5. ASSUME NEW t \in Threads, Write(t) PROVE TypeOK'
  <2>1. /\ UNCHANGED <<objects, filters, samplers, maskers, enabled, rules, audit>>
        /\ pc' = [pc EXCEPT ![t] = "idle"] /\ overlapped' = overlapped \ {t}
        /\ covered' = [covered EXCEPT ![t] = {}] /\ since' = [since EXCEPT ![t] = 0]
        /\ call' \in [Threads -> Calls] /\ \A o \in Threads : o # t => call'[o] = call[o]
        /\ DOMAIN call'[t].top = {} /\ DOMAIN call'[t].fields = {}
    BY <1>5, WriteIs, NoCallIs
  <2>2. /\ pc' \in [Threads -> {"idle", "process", "write", "filter", "install", "emit"}]
        /\ \A o \in Threads : DOMAIN call'[o].top \cup DOMAIN call'[o].fields # {} => pc'[o] \in {"process", "write"}
    BY <1>0, <2>1
  <2>3. since' \in [Threads -> 0..AuditCap] /\ covered' \in [Threads -> SUBSET {"regex", "pii"}]
    BY <2>1, LoggersAssumption DEF TypeOK
  <2>. QED
    BY <2>1, <2>2, <2>3 DEF TypeOK
<1>6. ASSUME NEW t \in Threads, NEW u \in Users, LogWithSecurity(t, u) PROVE TypeOK'
  <2>1. /\ UNCHANGED <<objects, strategies, security, covered>>
        /\ pc' = [pc EXCEPT ![t] = "filter"] /\ overlapped' \subseteq Threads
        /\ call' \in [Threads -> Calls] /\ \A o \in Threads : o # t => call'[o] = call[o]
        /\ DOMAIN call'[t].top = {} /\ DOMAIN call'[t].fields = {}
    BY <1>6, LogWithSecurityIs
  <2>2. /\ pc' \in [Threads -> {"idle", "process", "write", "filter", "install", "emit"}]
        /\ \A o \in Threads : DOMAIN call'[o].top \cup DOMAIN call'[o].fields # {} => pc'[o] \in {"process", "write"}
    BY <1>0, <2>1
  <2>. QED
    BY <2>1, <2>2 DEF TypeOK
<1>7. ASSUME NEW t \in Threads, FilterFieldsByAccess(t) PROVE TypeOK'
  <2>1. /\ UNCHANGED <<objects, strategies, rules, overlapped, covered>> /\ pc[t] = "filter"
        /\ pc' = [pc EXCEPT ![t] = "install"]
        /\ call' \in [Threads -> Calls] /\ \A o \in Threads : o # t => call'[o] = call[o]
        /\ call'[t].top = call[t].top /\ call'[t].fields = call[t].fields
    BY <1>7, FilterIs
  <2>2. /\ pc' \in [Threads -> {"idle", "process", "write", "filter", "install", "emit"}]
        /\ \A o \in Threads : DOMAIN call'[o].top \cup DOMAIN call'[o].fields # {} => pc'[o] \in {"process", "write"}
    BY <1>0, <2>1
  <2>3. /\ audit' \in Seq([user : Readers, keys : SUBSET Keys]) /\ Len(audit') <= AuditCap
        /\ since' \in [Threads -> 0..AuditCap]
    <3>1. CASE UNCHANGED <<audit, since>>
      BY <3>1 DEF TypeOK
    <3>2. ASSUME NEW S, RecordAudit(t, [user |-> call[t].user, keys |-> S \cap Personal])
          PROVE  /\ audit' \in Seq([user : Readers, keys : SUBSET Keys]) /\ Len(audit') <= AuditCap
                 /\ since' \in [Threads -> 0..AuditCap]
      <4>1. [user |-> call[t].user, keys |-> S \cap Personal] \in [user : Readers, keys : SUBSET Keys]
        BY LoggersAssumption DEF TypeOK, Calls
      <4>. QED
        BY <3>2, <4>1, AuditKept
    <3>. QED
      BY <1>7, <3>1, <3>2, FilterIs
  <2>. QED
    BY <2>1, <2>2, <2>3 DEF TypeOK
<1>8. ASSUME NEW t \in Threads, WithOnlyFields(t) PROVE TypeOK'
  <2>1. /\ UNCHANGED <<kind, made, using, given, strategies, security, call, overlapped, covered>>
        /\ pc[t] = "install" /\ pc' = [pc EXCEPT ![t] = "emit"] /\ base' \in [Loggers -> FieldMaps]
    BY <1>8, WithOnlyFieldsIs
  <2>. QED
    BY <2>1 DEF TypeOK
<1>9. ASSUME NEW t \in Threads, Emit(t) PROVE TypeOK'
  <2>1. call[t] \in Calls /\ call[t].logger \in 1..made
    BY <1>9, MadeLoggers DEF TypeOK, Borrowed, InSecured, Emit
  <2>2. Makes(t, call[t]) /\ pc' = [pc EXCEPT ![t] = "process"]
    BY <1>9, MakingSteps DEF Emit, Snapshot
  <2>3. covered' \in [Threads -> SUBSET {"regex", "pii"}]
    BY <1>9 DEF Emit, Snapshot, TypeOK
  <2>. QED
    BY <1>2, <1>9, <2>1, <2>2, <2>3
<1>10. CASE Sets
  <2>1. /\ UNCHANGED <<objects, pc, call, overlapped, audit, since>>
        /\ filters' \subseteq Ranges /\ samplers' \subseteq {"all", "some", "none"}
        /\ maskers' \subseteq {"regex", "pii"} /\ enabled' \in BOOLEAN /\ rules' \in [Keys -> Rules]
        /\ covered' \in [Threads -> SUBSET {"regex", "pii"}]
    BY <1>10, SetsIs
  <2>. QED
    BY <2>1 DEF TypeOK
<1>11. CASE UNCHANGED vars
  BY <1>11 DEF vars, TypeOK
<1>. QED
  BY <1>1, <1>3, <1>4, <1>5, <1>6, <1>7, <1>8, <1>9, <1>10, <1>11, NextIs

----------------------------------------------------------------------------
(* Lines.                                                                  *)

\* Only deriving a logger and WithOnlyFields change strategy objects.
LEMMA ObjectsMove ==
  ASSUME TypeOK, [Next]_vars
  PROVE  \/ UNCHANGED <<base, made, given>>
         \/ /\ made' = made + 1 /\ made' \in Loggers
            /\ \E f \in FieldMaps : base' = [base EXCEPT ![made'] = f] /\ given' = [given EXCEPT ![made'] = f]
         \/ /\ UNCHANGED <<made, given>>
            /\ \E t \in Threads : pc[t] = "install" /\ base'[Root] = call[t].kept
            /\ \A l \in Loggers : l # Root => base'[l] = base[l]
<1>1. ASSUME NEW t \in Threads, Derives(t)
      PROVE  \/ UNCHANGED <<base, made, given>>
             \/ /\ made' = made + 1 /\ made' \in Loggers
                /\ \E f \in FieldMaps : base' = [base EXCEPT ![made'] = f] /\ given' = [given EXCEPT ![made'] = f]
  BY <1>1, DerivesIs
<1>2. ASSUME NEW t \in Threads, NEW level \in Levels, Log(t, level) \/ LogUnified(t, level)
      PROVE  UNCHANGED <<base, made, given>>
  BY <1>2 DEF Log, LogUnified
<1>3. ASSUME NEW t \in Threads,
             ProcessEntry(t) \/ Write(t) \/ (\E u \in Users : LogWithSecurity(t, u)) \/ FilterFieldsByAccess(t) \/ Emit(t)
      PROVE  UNCHANGED <<base, made, given>>
  BY <1>3 DEF ProcessEntry, Write, LogWithSecurity, FilterFieldsByAccess, Emit
<1>4. ASSUME NEW t \in Threads, WithOnlyFields(t)
      PROVE  /\ UNCHANGED <<made, given>>
             /\ pc[t] = "install" /\ base'[Root] = call[t].kept
             /\ \A l \in Loggers : l # Root => base'[l] = base[l]
  BY <1>4, WithOnlyFieldsIs
<1>5. CASE Sets
  BY <1>5, SetsIs
<1>6. CASE UNCHANGED vars
  BY <1>6 DEF vars
<1>. QED
  BY <1>1, <1>2, <1>3, <1>4, <1>5, <1>6, NextIs

\* What a logger was derived with does not change.
LEMMA GivenKept ==
  ASSUME TypeOK, [Next]_vars
  PROVE  \A l \in 1..made : l \in 1..made' /\ given'[l] = given[l]
<1>1. CASE UNCHANGED <<made, given>>
  BY <1>1
<1>2. CASE /\ made' = made + 1 /\ made' \in Loggers
           /\ \E f \in FieldMaps : base' = [base EXCEPT ![made'] = f] /\ given' = [given EXCEPT ![made'] = f]
  <2>1. \A l \in 1..made : l \in 1..made' /\ l # made' /\ l \in Loggers
    BY <1>2, MadeLoggers
  <2>. QED
    BY <1>2, <2>1 DEF TypeOK
<1>. QED
  BY <1>1, <1>2, ObjectsMove

LEMMA DerivedNext == TypeOK /\ Derived /\ Borrowed /\ [Next]_vars => Derived'
<1>. SUFFICES ASSUME TypeOK, Derived, Borrowed, [Next]_vars PROVE Derived'
  OBVIOUS
<1>1. CASE UNCHANGED <<base, made, given>>
  BY <1>1 DEF Derived
<1>2. CASE /\ made' = made + 1 /\ made' \in Loggers
           /\ \E f \in FieldMaps : base' = [base EXCEPT ![made'] = f] /\ given' = [given EXCEPT ![made'] = f]
  <2>1. PICK f \in FieldMaps : base' = [base EXCEPT ![made'] = f] /\ given' = [given EXCEPT ![made'] = f]
    BY <1>2
  <2>2. base'[made'] = f /\ given'[made'] = f
    BY <1>2, <2>1 DEF TypeOK
  <2>3. \A l \in 1..made : base'[l] = base[l] /\ given'[l] = given[l]
    <3>1. \A l \in 1..made : l # made' /\ l \in Loggers
      BY <1>2, MadeLoggers
    <3>. QED
      BY <2>1, <3>1 DEF TypeOK
  <2>4. 1..made' = 1..made \cup {made'}
    BY <1>2, MadeLoggers
  <2>. QED
    BY <2>2, <2>3, <2>4 DEF Derived, Part
<1>3. CASE /\ UNCHANGED <<made, given>>
           /\ \E t \in Threads : pc[t] = "install" /\ base'[Root] = call[t].kept
           /\ \A l \in Loggers : l # Root => base'[l] = base[l]
  BY <1>3, MadeLoggers DEF Derived, Borrowed, InSecured
<1>. QED
  BY <1>1, <1>2, <1>3, ObjectsMove

\* A new entry, and an entry after the maskers.
LEMMA LineMade ==
  ASSUME NEW c, NEW f, NEW g, Part(f, g), c.logger # Root => f = g,
         DOMAIN c.top = Promoted(f), DOMAIN c.fields = DOMAIN f \ Promoted(f),
         \A k \in DOMAIN c.top : c.top[k] = f[k],
         \A k \in DOMAIN c.fields : c.fields[k] = f[k]
  PROVE  LineOf(c, g)
BY DEF LineOf, Part, Promoted, Same

LEMMA LineMasked ==
  ASSUME NEW c, NEW e, NEW g, LineOf(c, g), Masked(e.fields, c.fields), e.top = c.top, e.logger = c.logger
  PROVE  LineOf(e, g)
BY DEF LineOf, Masked, Same

LEMMA BorrowedNext == TypeOK /\ Derived /\ Borrowed /\ [Next]_vars => Borrowed'
<1>. SUFFICES ASSUME TypeOK, Derived, Borrowed, [Next]_vars PROVE Borrowed'
  OBVIOUS
<1>0. pc \in [Threads -> {"idle", "process", "write", "filter", "install", "emit"}]
  BY DEF TypeOK
<1>g. given'[Root] = given[Root]
  BY GivenKept, MadeLoggers
<1>1. ASSUME UNCHANGED <<pc, call>> PROVE Borrowed'
  BY <1>g, <1>1 DEF Borrowed, InSecured
<1>2. ASSUME NEW t \in Threads, \A o \in Threads : o # t => pc'[o] = pc[o] /\ call'[o] = call[o],
             InSecured(t)' => call'[t].logger = Root /\ Part(call'[t].kept, given[Root])
      PROVE  Borrowed'
  BY <1>g, <1>2 DEF Borrowed, InSecured
<1>3. ASSUME NEW t \in Threads, NEW c \in Calls, c.logger \in 1..made, Makes(t, c),
             pc' \in {[pc EXCEPT ![t] = "process"], [pc EXCEPT ![t] = "write"]}
      PROVE  Borrowed'
  <2>1. \A o \in Threads : o # t => pc'[o] = pc[o] /\ call'[o] = call[o]
    BY <1>0, <1>3, MakesIs
  <2>2. ~InSecured(t)'
    BY <1>0, <1>3 DEF InSecured
  <2>. QED
    BY <1>2, <2>1, <2>2
<1>4. ASSUME NEW t \in Threads, NEW level \in Levels, Log(t, level) \/ LogUnified(t, level) PROVE Borrowed'
  <2>1. /\ Called(t, level) \in Calls /\ Called(t, level).logger \in 1..made /\ Makes(t, Called(t, level))
        /\ pc' \in {[pc EXCEPT ![t] = "process"], [pc EXCEPT ![t] = "write"]}
    BY <1>4, CalledIs, MadeLoggers, MakingSteps DEF Log, LogUnified, Snapshot
  <2>. QED
    BY <1>3, <2>1
<1>5. ASSUME NEW t \in Threads, Emit(t) PROVE Borrowed'
  <2>1. call[t] \in Calls /\ call[t].logger \in 1..made
    BY <1>5, MadeLoggers DEF TypeOK, Borrowed, InSecured, Emit
  <2>2. Makes(t, call[t]) /\ pc' = [pc EXCEPT ![t] = "process"]
    BY <1>5, MakingSteps DEF Emit, Snapshot
  <2>. QED
    BY <1>3, <2>1, <2>2
<1>6. ASSUME NEW t \in Threads, ProcessEntry(t) \/ Write(t) PROVE Borrowed'
  <2>1. /\ \A o \in Threads : o # t => call'[o] = call[o]
        /\ pc' \in {[pc EXCEPT ![t] = "write"], [pc EXCEPT ![t] = "idle"]}
    BY <1>6, ProcessIs, WriteIs
  <2>2. ~InSecured(t)'
    BY <1>0, <2>1 DEF InSecured
  <2>. QED
    BY <1>0, <1>2, <2>1, <2>2
<1>7. ASSUME NEW t \in Threads, NEW u \in Users, LogWithSecurity(t, u) PROVE Borrowed'
  <2>1. /\ \A o \in Threads : o # t => call'[o] = call[o]
        /\ pc' = [pc EXCEPT ![t] = "filter"] /\ call'[t].logger = Root /\ call'[t].kept = base[Root]
    BY <1>7, LogWithSecurityIs
  <2>2. Part(base[Root], given[Root])
    BY MadeLoggers DEF Derived
  <2>. QED
    BY <1>0, <1>2, <2>1, <2>2
<1>8. ASSUME NEW t \in Threads, FilterFieldsByAccess(t) PROVE Borrowed'
  <2>1. /\ \A o \in Threads : o # t => call'[o] = call[o]
        /\ pc' = [pc EXCEPT ![t] = "install"] /\ call'[t].logger = call[t].logger
        /\ Part(call'[t].kept, call[t].kept) /\ pc[t] = "filter"
    BY <1>8, FilterIs
  <2>2. call[t].logger = Root /\ Part(call[t].kept, given[Root])
    BY <2>1 DEF Borrowed, InSecured
  <2>3. Part(call'[t].kept, given[Root])
    BY <2>1, <2>2 DEF Part
  <2>. QED
    BY <1>0, <1>2, <2>1, <2>2, <2>3
<1>9. ASSUME NEW t \in Threads, WithOnlyFields(t) PROVE Borrowed'
  <2>1. pc[t] = "install" /\ pc' = [pc EXCEPT ![t] = "emit"] /\ UNCHANGED call
    BY <1>9, WithOnlyFieldsIs
  <2>2. call[t].logger = Root /\ Part(call[t].kept, given[Root])
    BY <2>1 DEF Borrowed, InSecured
  <2>. QED
    BY <1>0, <1>2, <2>1, <2>2
<1>10. ASSUME NEW t \in Threads, Derives(t) PROVE Borrowed'
  BY <1>1, <1>10, DerivesIs
<1>11. CASE Sets
  BY <1>1, <1>11, SetsIs
<1>12. CASE UNCHANGED vars
  BY <1>1, <1>12 DEF vars
<1>. QED
  BY <1>4, <1>5, <1>6, <1>7, <1>8, <1>9, <1>10, <1>11, <1>12, NextIs

LEMMA LinesNext == TypeOK /\ LinesInv /\ [Next]_vars => Lines'
<1>. SUFFICES ASSUME TypeOK, LinesInv, [Next]_vars PROVE Lines'
  OBVIOUS
<1>0. pc \in [Threads -> {"idle", "process", "write", "filter", "install", "emit"}]
  BY DEF TypeOK
<1>1. ASSUME UNCHANGED <<pc, call>> PROVE Lines'
  BY <1>1, GivenKept DEF LinesInv, Lines
<1>2. ASSUME NEW t \in Threads, \A o \in Threads : o # t => pc'[o] = pc[o] /\ call'[o] = call[o],
             pc'[t] \in {"process", "write"} =>
               call'[t].logger \in 1..made /\ LineOf(call'[t], given[call'[t].logger])
      PROVE  Lines'
  BY <1>2, GivenKept DEF LinesInv, Lines
<1>3. ASSUME NEW t \in Threads, NEW c \in Calls, c.logger \in 1..made, Makes(t, c),
             \A o \in Threads : o # t => pc'[o] = pc[o]
      PROVE  Lines'
  <2>. DEFINE f == base[c.logger]
              g == given[c.logger]
  <2>1. Part(f, g) /\ (c.logger # Root => f = g)
    BY <1>3 DEF LinesInv, Derived
  <2>2. /\ \A o \in Threads : o # t => call'[o] = call[o]
        /\ call'[t].logger = c.logger
        /\ DOMAIN call'[t].top = Promoted(f) /\ DOMAIN call'[t].fields = DOMAIN f \ Promoted(f)
        /\ \A k \in DOMAIN call'[t].top : call'[t].top[k] = f[k]
        /\ \A k \in DOMAIN call'[t].fields : call'[t].fields[k] = f[k]
    BY <1>3, MakesIs
  <2>. HIDE DEF f
  <2>3. LineOf(call'[t], g)
    <3>. HIDE DEF g
    <3>. QED
      BY <2>1, <2>2, LineMade
  <2>. QED
    BY <1>2, <1>3, <2>2, <2>3
<1>4. ASSUME NEW t \in Threads, NEW level \in Levels, Log(t, level) \/ LogUnified(t, level) PROVE Lines'
  <2>1. /\ Called(t, level) \in Calls /\ Called(t, level).logger \in 1..made /\ Makes(t, Called(t, level))
        /\ pc' \in {[pc EXCEPT ![t] = "process"], [pc EXCEPT ![t] = "write"]}
    BY <1>4, CalledIs, MadeLoggers, MakingSteps DEF Log, LogUnified, Snapshot
  <2>2. \A o \in Threads : o # t => pc'[o] = pc[o]
    BY <1>0, <2>1
  <2>. QED
    BY <1>3, <2>1, <2>2
<1>5. ASSUME NEW t \in Threads, Emit(t) PROVE Lines'
  <2>1. call[t] \in Calls /\ call[t].logger \in 1..made
    BY <1>5, MadeLoggers DEF TypeOK, LinesInv, Borrowed, InSecured, Emit
  <2>2. Makes(t, call[t]) /\ \A o \in Threads : o # t => pc'[o] = pc[o]
    BY <1>0, <1>5, MakingSteps DEF Emit, Snapshot
  <2>. QED
    BY <1>3, <2>1, <2>2
<1>6. ASSUME NEW t \in Threads, ProcessEntry(t) PROVE Lines'
  <2>1. /\ pc[t] = "process" /\ \A o \in Threads : o # t => pc'[o] = pc[o] /\ call'[o] = call[o]
    BY <1>0, <1>6, ProcessIs
  <2>2. CASE pc' = [pc EXCEPT ![t] = "idle"]
    BY <1>0, <1>2, <2>1, <2>2
  <2>3. CASE /\ call'[t].fields = MaskFields(call[t].fields)
             /\ call'[t].logger = call[t].logger /\ call'[t].top = call[t].top
    <3>1. call[t].fields \in FieldMaps
      BY DEF TypeOK, Calls
    <3>2. Masked(call'[t].fields, call[t].fields)
      BY <2>3, <3>1, FieldsMasked
    <3>3. call[t].logger \in 1..made /\ LineOf(call[t], given[call[t].logger])
      BY <2>1 DEF LinesInv, Lines
    <3>4. LineOf(call'[t], given[call[t].logger])
      BY <2>3, <3>2, <3>3, LineMasked
    <3>. QED
      BY <1>2, <2>1, <2>3, <3>3, <3>4
  <2>. QED
    BY <1>6, <2>2, <2>3, ProcessIs
<1>7. ASSUME NEW t \in Threads, \A o \in Threads : o # t => call'[o] = call[o],
             \E p \in {"idle", "filter", "install", "emit"} : pc' = [pc EXCEPT ![t] = p]
      PROVE  Lines'
  BY <1>0, <1>2, <1>7
<1>8. ASSUME NEW t \in Threads,
             Write(t) \/ (\E u \in Users : LogWithSecurity(t, u)) \/ FilterFieldsByAccess(t) \/ WithOnlyFields(t)
      PROVE  Lines'
  <2>1. \A o \in Threads : o # t => call'[o] = call[o]
    BY <1>8, WriteIs, LogWithSecurityIs, FilterIs, WithOnlyFieldsIs
  <2>2. \E p \in {"idle", "filter", "install", "emit"} : pc' = [pc EXCEPT ![t] = p]
    BY <1>8, WriteIs, LogWithSecurityIs, FilterIs, WithOnlyFieldsIs
  <2>. QED
    BY <1>7, <2>1, <2>2
<1>9. ASSUME NEW t \in Threads, Derives(t) PROVE Lines'
  BY <1>1, <1>9, DerivesIs
<1>10. CASE Sets
  BY <1>1, <1>10, SetsIs
<1>11. CASE UNCHANGED vars
  BY <1>1, <1>11 DEF vars
<1>. QED
  BY <1>4, <1>5, <1>6, <1>8, <1>9, <1>10, <1>11, NextIs

----------------------------------------------------------------------------
(* Masking.                                                                *)

LEMMA CoversNext == TypeOK /\ Covers /\ [Next]_vars => Covers'
<1>. SUFFICES ASSUME TypeOK, Covers, [Next]_vars PROVE Covers'
  OBVIOUS
<1>0. /\ pc \in [Threads -> {"idle", "process", "write", "filter", "install", "emit"}]
      /\ covered \in [Threads -> SUBSET {"regex", "pii"}]
  BY DEF TypeOK
<1>1. ASSUME UNCHANGED <<kind, covered, maskers, enabled, pc>> PROVE Covers'
  BY <1>1 DEF Covers, InSecured
<1>2. ASSUME NEW t \in Threads, UNCHANGED <<kind, maskers, enabled>>,
             \A o \in Threads : o # t => pc'[o] = pc[o] /\ covered'[o] = covered[o],
             kind = "unified" => covered'[t] = {} /\ ~InSecured(t)',
             pc'[t] = "process" => covered'[t] \subseteq maskers /\ ("pii" \in covered'[t] => enabled)
      PROVE  Covers'
  BY <1>2 DEF Covers, InSecured
<1>3. ASSUME NEW t \in Threads, NEW c, Snapshot(t, c), kind # "unified", UNCHANGED <<kind, maskers, enabled>>
      PROVE  Covers'
  <2>1. /\ \A o \in Threads : o # t => pc'[o] = pc[o] /\ covered'[o] = covered[o]
        /\ covered'[t] = {m \in maskers : m = "pii" => enabled}
    BY <1>0, <1>3 DEF Snapshot
  <2>. QED
    BY <1>2, <1>3, <2>1
<1>4. ASSUME NEW t \in Threads, NEW level \in Levels, Log(t, level) PROVE Covers'
  BY <1>3, <1>4 DEF Log
<1>5. ASSUME NEW t \in Threads, Emit(t) PROVE Covers'
  BY <1>3, <1>5 DEF Emit, Covers, InSecured
<1>6. ASSUME NEW t \in Threads, NEW level \in Levels, LogUnified(t, level) PROVE Covers'
  <2>1. /\ UNCHANGED <<kind, maskers, enabled, covered>> /\ pc' = [pc EXCEPT ![t] = "write"]
    BY <1>6 DEF LogUnified
  <2>. QED
    BY <1>0, <1>2, <2>1 DEF Covers, InSecured
<1>7. ASSUME NEW t \in Threads, UNCHANGED <<kind, maskers, enabled, covered>>,
             \E p \in {"write", "idle"} : pc' = [pc EXCEPT ![t] = p]
      PROVE  Covers'
  BY <1>0, <1>2, <1>7 DEF Covers, InSecured
<1>8. ASSUME NEW t \in Threads, ProcessEntry(t) PROVE Covers'
  BY <1>7, <1>8, ProcessIs
<1>9. ASSUME NEW t \in Threads, Write(t) PROVE Covers'
  <2>1. /\ UNCHANGED <<kind, maskers, enabled>> /\ pc' = [pc EXCEPT ![t] = "idle"]
        /\ covered' = [covered EXCEPT ![t] = {}]
    BY <1>9, WriteIs
  <2>. QED
    BY <1>0, <1>2, <2>1 DEF InSecured
<1>10. ASSUME NEW t \in Threads, UNCHANGED <<kind, maskers, enabled, covered>>, kind # "unified",
              \E p \in {"filter", "install", "emit"} : pc' = [pc EXCEPT ![t] = p]
       PROVE  Covers'
  BY <1>0, <1>2, <1>10
<1>11. ASSUME NEW t \in Threads, NEW u \in Users, LogWithSecurity(t, u) PROVE Covers'
  BY <1>10, <1>11, LogWithSecurityIs DEF LogWithSecurity
<1>12. ASSUME NEW t \in Threads, FilterFieldsByAccess(t) PROVE Covers'
  BY <1>10, <1>12, FilterIs DEF Covers, InSecured
<1>13. ASSUME NEW t \in Threads, WithOnlyFields(t) PROVE Covers'
  BY <1>10, <1>13, WithOnlyFieldsIs DEF Covers, InSecured
<1>14. ASSUME NEW t \in Threads, Derives(t) PROVE Covers'
  BY <1>1, <1>14, DerivesIs
<1>15. CASE Sets
  <2>1. UNCHANGED <<kind, pc>>
    BY <1>15, SetsIs
  <2>2. \A t \in Threads :
          /\ covered'[t] \subseteq covered[t]
          /\ covered[t] \subseteq maskers => covered'[t] \subseteq maskers'
          /\ ("pii" \in covered[t] => enabled) => ("pii" \in covered'[t] => enabled')
    BY <1>15, SetsIs
  <2>. QED
    BY <2>1, <2>2 DEF Covers, InSecured
<1>16. CASE UNCHANGED vars
  BY <1>1, <1>16 DEF vars
<1>. QED
  BY <1>4, <1>5, <1>6, <1>8, <1>9, <1>11, <1>12, <1>13, <1>14, <1>15, <1>16, NextIs

LEMMA RawNext == TypeOK /\ MaskedInv /\ [Next]_vars => RawOnlyInIds'
<1>. SUFFICES ASSUME TypeOK, MaskedInv, [Next]_vars PROVE RawOnlyInIds'
  OBVIOUS
<1>0. /\ pc \in [Threads -> {"idle", "process", "write", "filter", "install", "emit"}]
      /\ covered \in [Threads -> SUBSET {"regex", "pii"}]
  BY DEF TypeOK
<1>1. ASSUME UNCHANGED <<pc, call>>, \A t \in Threads : covered'[t] \subseteq covered[t] PROVE RawOnlyInIds'
  BY <1>1 DEF MaskedInv, RawOnlyInIds
<1>2. ASSUME NEW t \in Threads,
             \A o \in Threads : o # t => pc'[o] = pc[o] /\ call'[o] = call[o] /\ covered'[o] = covered[o],
             pc'[t] = "write" =>
               \A k \in DOMAIN call'[t].fields :
                 /\ "regex" \in covered'[t] => call'[t].fields[k].text # "card"
                 /\ "pii" \in covered'[t] =>
                      IF k \in Secrets THEN call'[t].fields[k].text \in {"number", "struct", "masked"}
                      ELSE call'[t].fields[k].text \in {"plain", "number", "masked"}
      PROVE  RawOnlyInIds'
  BY <1>2 DEF MaskedInv, RawOnlyInIds
<1>3. ASSUME NEW t \in Threads, \A o \in Threads : o # t => call'[o] = call[o] /\ covered'[o] = covered[o],
             \E p \in {"idle", "process", "filter", "install", "emit"} : pc' = [pc EXCEPT ![t] = p]
      PROVE  RawOnlyInIds'
  <2>1. pc'[t] # "write" /\ \A o \in Threads : o # t => pc'[o] = pc[o]
    BY <1>0, <1>3
  <2>. QED
    BY <1>2, <1>3, <2>1
<1>4. ASSUME NEW t \in Threads, NEW c, Snapshot(t, c) PROVE RawOnlyInIds'
  BY <1>0, <1>3, <1>4 DEF Snapshot, TypeOK
<1>5. ASSUME NEW t \in Threads, Emit(t) \/ \E level \in Levels : Log(t, level) PROVE RawOnlyInIds'
  BY <1>4, <1>5 DEF Emit, Log
<1>6. ASSUME NEW t \in Threads, NEW level \in Levels, LogUnified(t, level) PROVE RawOnlyInIds'
  <2>1. \A o \in Threads : o # t => call'[o] = call[o]
    BY <1>6, CalledIs, MadeLoggers, MakingSteps, MakesIs
  <2>2. pc' = [pc EXCEPT ![t] = "write"] /\ UNCHANGED covered /\ kind = "unified"
    BY <1>6 DEF LogUnified
  <2>3. covered'[t] = {}
    BY <2>2 DEF MaskedInv, Covers
  <2>. QED
    BY <1>0, <1>2, <2>1, <2>2, <2>3
<1>7. ASSUME NEW t \in Threads, ProcessEntry(t) PROVE RawOnlyInIds'
  <2>1. /\ pc[t] = "process" /\ \A o \in Threads : o # t => pc'[o] = pc[o] /\ call'[o] = call[o]
        /\ UNCHANGED <<maskers, enabled, covered>>
    BY <1>0, <1>7, ProcessIs
  <2>2. CASE pc' = [pc EXCEPT ![t] = "idle"]
    BY <1>0, <1>3, <2>1, <2>2
  <2>3. CASE call'[t].fields = MaskFields(call[t].fields)
    <3>. DEFINE f == call[t].fields
                g == call'[t].fields
    <3>1. f \in FieldMaps
      BY DEF TypeOK, Calls
    <3>2. covered[t] \subseteq maskers /\ ("pii" \in covered[t] => enabled)
      BY <2>1 DEF MaskedInv, Covers
    <3>3. g = MaskFields(f)
      BY <2>3
    <3>. HIDE DEF f, g
    <3>4. /\ DOMAIN g = DOMAIN f
          /\ "regex" \in maskers => \A k \in DOMAIN g : g[k].text # "card"
          /\ "pii" \in maskers /\ enabled =>
               \A k \in DOMAIN g : IF k \in Secrets THEN g[k].text \in {"number", "struct", "masked"}
                                   ELSE g[k].text \in {"plain", "number", "masked"}
      BY <3>1, <3>3, FieldsMasked DEF Masked
    <3>5. \A k \in DOMAIN g :
            /\ "regex" \in covered'[t] => g[k].text # "card"
            /\ "pii" \in covered'[t] =>
                 IF k \in Secrets THEN g[k].text \in {"number", "struct", "masked"}
                 ELSE g[k].text \in {"plain", "number", "masked"}
      BY <2>1, <3>2, <3>4
    <3>. QED
      BY <1>2, <2>1, <3>5 DEF g
  <2>. QED
    BY <1>7, <2>2, <2>3, ProcessIs
<1>8. ASSUME NEW t \in Threads,
             Write(t) \/ (\E u \in Users : LogWithSecurity(t, u)) \/ FilterFieldsByAccess(t) \/ WithOnlyFields(t)
      PROVE  RawOnlyInIds'
  <2>1. \A o \in Threads : o # t => call'[o] = call[o]
    BY <1>8, WriteIs, LogWithSecurityIs, FilterIs, WithOnlyFieldsIs
  <2>2. covered' \in {covered, [covered EXCEPT ![t] = {}]}
    BY <1>8, WriteIs, LogWithSecurityIs, FilterIs, WithOnlyFieldsIs
  <2>3. \A o \in Threads : o # t => covered'[o] = covered[o]
    BY <1>0, <2>2
  <2>4. \E p \in {"idle", "process", "filter", "install", "emit"} : pc' = [pc EXCEPT ![t] = p]
    BY <1>8, WriteIs, LogWithSecurityIs, FilterIs, WithOnlyFieldsIs
  <2>. QED
    BY <1>3, <2>1, <2>4, <2>3
<1>9. ASSUME NEW t \in Threads, Derives(t) PROVE RawOnlyInIds'
  BY <1>1, <1>9, DerivesIs
<1>10. CASE Sets
  BY <1>1, <1>10, SetsIs
<1>11. CASE UNCHANGED vars
  BY <1>1, <1>11 DEF vars
<1>. QED
  BY <1>5, <1>6, <1>7, <1>8, <1>9, <1>10, <1>11, NextIs

----------------------------------------------------------------------------
(* Secured calls.                                                          *)

LEMMA AloneNext == TypeOK /\ SecuredInv /\ [Next]_vars => Alone'
<1>. SUFFICES ASSUME TypeOK, SecuredInv, [Next]_vars PROVE Alone'
  OBVIOUS
<1>0. /\ pc \in [Threads -> {"idle", "process", "write", "filter", "install", "emit"}]
      /\ overlapped \subseteq Threads
  BY DEF TypeOK
<1>1. ASSUME UNCHANGED <<pc, call, overlapped>>, base'[Root] = base[Root] PROVE Alone'
  BY <1>1 DEF SecuredInv, Alone, InSecured
<1>2. ASSUME NEW t \in Threads, base'[Root] = base[Root], UNCHANGED overlapped,
             \A o \in Threads : o # t => pc'[o] = pc[o] /\ call'[o] = call[o],
             InSecured(t)' => InSecured(t),
             t \notin overlapped =>
               /\ pc'[t] = "emit" => base[Root] = call'[t].kept
               /\ pc'[t] \in {"process", "write"} /\ call'[t].user # NoUser =>
                    DOMAIN call'[t].top \cup DOMAIN call'[t].fields \subseteq DOMAIN call'[t].kept
      PROVE  Alone'
  BY <1>2 DEF SecuredInv, Alone, InSecured
<1>3. ASSUME NEW t \in Threads, NEW level \in Levels, Log(t, level) \/ LogUnified(t, level) PROVE Alone'
  <2>1. /\ Called(t, level) \in Calls /\ Called(t, level).logger \in 1..made /\ Makes(t, Called(t, level))
        /\ Called(t, level).user = NoUser
        /\ pc' \in {[pc EXCEPT ![t] = "process"], [pc EXCEPT ![t] = "write"]}
    BY <1>3, CalledIs, MadeLoggers, MakingSteps DEF Log, LogUnified, Snapshot
  <2>2. /\ \A o \in Threads : o # t => pc'[o] = pc[o] /\ call'[o] = call[o]
        /\ pc'[t] \in {"process", "write"} /\ call'[t].user = NoUser
    BY <1>0, <2>1, MakesIs
  <2>3. UNCHANGED <<base, overlapped>>
    BY <2>1 DEF Makes
  <2>. QED
    BY <1>2, <2>2, <2>3 DEF InSecured
<1>4. ASSUME NEW t \in Threads, Emit(t) PROVE Alone'
  <2>1. /\ call[t] \in Calls /\ call[t].logger = Root /\ pc[t] = "emit" /\ pc' = [pc EXCEPT ![t] = "process"]
        /\ Makes(t, call[t])
    BY <1>4, MakingSteps DEF TypeOK, SecuredInv, Borrowed, InSecured, Emit, Snapshot
  <2>. DEFINE f == base[Root]
  <2>2. /\ \A o \in Threads : o # t => call'[o] = call[o]
        /\ call'[t].kept = call[t].kept
        /\ DOMAIN call'[t].top = Promoted(f) /\ DOMAIN call'[t].fields = DOMAIN f \ Promoted(f)
    BY <2>1, MadeLoggers, MakesIs
  <2>3. Promoted(f) \subseteq DOMAIN f
    BY DEF Promoted
  <2>4. t \notin overlapped => f = call[t].kept
    BY <2>1 DEF SecuredInv, Alone
  <2>5. UNCHANGED <<base, overlapped>>
    BY <2>1 DEF Makes
  <2>6. pc'[t] = "process" /\ \A o \in Threads : o # t => pc'[o] = pc[o]
    BY <1>0, <2>1
  <2>7. t \notin overlapped => DOMAIN call'[t].top \cup DOMAIN call'[t].fields \subseteq DOMAIN call'[t].kept
    BY <2>2, <2>3, <2>4
  <2>. QED
    BY <1>2, <2>2, <2>5, <2>6, <2>7 DEF InSecured
<1>5. ASSUME NEW t \in Threads, ProcessEntry(t) PROVE Alone'
  <2>1. /\ UNCHANGED <<base, overlapped>> /\ pc[t] = "process"
        /\ \A o \in Threads : o # t => pc'[o] = pc[o] /\ call'[o] = call[o]
    BY <1>0, <1>5, ProcessIs
  <2>2. CASE pc' = [pc EXCEPT ![t] = "idle"]
    BY <1>0, <1>2, <2>1, <2>2 DEF InSecured
  <2>3. CASE /\ pc' = [pc EXCEPT ![t] = "write"] /\ call'[t].fields = MaskFields(call[t].fields)
             /\ call'[t].user = call[t].user /\ call'[t].kept = call[t].kept /\ call'[t].top = call[t].top
    <3>1. call[t].fields \in FieldMaps
      BY DEF TypeOK, Calls
    <3>2. DOMAIN call'[t].fields = DOMAIN call[t].fields
      BY <2>3, <3>1, FieldsMasked DEF Masked
    <3>3. t \notin overlapped /\ call[t].user # NoUser =>
            DOMAIN call[t].top \cup DOMAIN call[t].fields \subseteq DOMAIN call[t].kept
      BY <2>1 DEF SecuredInv, Alone
    <3>4. pc'[t] = "write"
      BY <1>0, <2>3
    <3>5. t \notin overlapped /\ call'[t].user # NoUser =>
            DOMAIN call'[t].top \cup DOMAIN call'[t].fields \subseteq DOMAIN call'[t].kept
      BY <2>3, <3>2, <3>3
    <3>. QED
      BY <1>2, <2>1, <3>4, <3>5 DEF InSecured
  <2>. QED
    BY <1>5, <2>2, <2>3, ProcessIs
<1>6. ASSUME NEW t \in Threads, Write(t) PROVE Alone'
  <2>1. /\ UNCHANGED base /\ pc'[t] = "idle" /\ overlapped' = overlapped \ {t}
        /\ \A o \in Threads : o # t => pc'[o] = pc[o] /\ call'[o] = call[o]
    BY <1>0, <1>6, WriteIs
  <2>2. \A x, o \in Threads : x # o /\ InSecured(x)' /\ InSecured(o)' => x \in overlapped'
    BY <2>1 DEF SecuredInv, Alone, InSecured
  <2>3. ASSUME NEW o \in Threads \ overlapped'
        PROVE  /\ pc'[o] = "emit" => base'[Root] = call'[o].kept
               /\ pc'[o] \in {"process", "write"} /\ call'[o].user # NoUser =>
                    DOMAIN call'[o].top \cup DOMAIN call'[o].fields \subseteq DOMAIN call'[o].kept
    BY <2>1 DEF SecuredInv, Alone
  <2>. QED
    BY <2>2, <2>3 DEF Alone
<1>7. ASSUME NEW t \in Threads, NEW u \in Users, LogWithSecurity(t, u) PROVE Alone'
  <2>1. /\ UNCHANGED base /\ pc'[t] = "filter" /\ overlapped \subseteq overlapped'
        /\ \A o \in Threads : o # t => pc'[o] = pc[o] /\ call'[o] = call[o]
        /\ \A o \in Threads : o # t /\ InSecured(o) => o \in overlapped' /\ t \in overlapped'
    BY <1>0, <1>7, LogWithSecurityIs
  <2>2. \A x, o \in Threads : x # o /\ InSecured(x)' /\ InSecured(o)' => x \in overlapped'
    BY <2>1 DEF SecuredInv, Alone, InSecured
  <2>3. ASSUME NEW o \in Threads \ overlapped'
        PROVE  /\ pc'[o] = "emit" => base'[Root] = call'[o].kept
               /\ pc'[o] \in {"process", "write"} /\ call'[o].user # NoUser =>
                    DOMAIN call'[o].top \cup DOMAIN call'[o].fields \subseteq DOMAIN call'[o].kept
    BY <2>1 DEF SecuredInv, Alone
  <2>. QED
    BY <2>2, <2>3 DEF Alone
<1>8. ASSUME NEW t \in Threads, FilterFieldsByAccess(t) PROVE Alone'
  <2>1. /\ UNCHANGED <<base, overlapped>> /\ pc[t] = "filter" /\ pc'[t] = "install"
        /\ \A o \in Threads : o # t => pc'[o] = pc[o] /\ call'[o] = call[o]
    BY <1>0, <1>8, FilterIs
  <2>. QED
    BY <1>2, <2>1 DEF InSecured
<1>9. ASSUME NEW t \in Threads, WithOnlyFields(t) PROVE Alone'
  <2>1. /\ UNCHANGED <<call, overlapped>> /\ pc[t] = "install" /\ pc'[t] = "emit"
        /\ base'[Root] = call[t].kept
        /\ \A o \in Threads : o # t => pc'[o] = pc[o]
    BY <1>0, <1>9, WithOnlyFieldsIs
  <2>2. \A x, o \in Threads : x # o /\ InSecured(x)' /\ InSecured(o)' => x \in overlapped'
    BY <2>1 DEF SecuredInv, Alone, InSecured
  <2>3. \A o \in Threads : o # t /\ pc[o] = "emit" => o \in overlapped
    BY <2>1 DEF SecuredInv, Alone, InSecured
  <2>4. ASSUME NEW o \in Threads \ overlapped'
        PROVE  /\ pc'[o] = "emit" => base'[Root] = call'[o].kept
               /\ pc'[o] \in {"process", "write"} /\ call'[o].user # NoUser =>
                    DOMAIN call'[o].top \cup DOMAIN call'[o].fields \subseteq DOMAIN call'[o].kept
    BY <2>1, <2>3 DEF SecuredInv, Alone
  <2>. QED
    BY <2>2, <2>4 DEF Alone
<1>10. ASSUME NEW t \in Threads, Derives(t) PROVE Alone'
  <2>1. UNCHANGED <<pc, call, overlapped>>
    BY <1>10, DerivesIs
  <2>2. base'[Root] = base[Root]
    <3>1. CASE UNCHANGED base
      BY <3>1
    <3>2. CASE made' = made + 1 /\ \E f \in FieldMaps : base' = [base EXCEPT ![made'] = f]
      <4>1. made' # Root /\ Root \in Loggers
        BY <3>2, MadeLoggers DEF Root
      <4>. QED
        BY <3>2, <4>1 DEF TypeOK
    <3>. QED
      BY <1>10, <3>1, <3>2, DerivesIs
  <2>. QED
    BY <1>1, <2>1, <2>2
<1>11. CASE Sets
  BY <1>1, <1>11, SetsIs
<1>12. CASE UNCHANGED vars
  BY <1>1, <1>12 DEF vars
<1>. QED
  BY <1>3, <1>4, <1>5, <1>6, <1>7, <1>8, <1>9, <1>10, <1>11, <1>12, NextIs

LEMMA AuditedNext == TypeOK /\ Borrowed /\ Audited /\ [Next]_vars => Audited'
<1>. SUFFICES ASSUME TypeOK, Borrowed, Audited, [Next]_vars PROVE Audited'
  OBVIOUS
<1>0. /\ pc \in [Threads -> {"idle", "process", "write", "filter", "install", "emit"}]
      /\ since \in [Threads -> 0..AuditCap] /\ AuditCap \in Nat \ {0}
      /\ Len(audit) \in Nat /\ Len(audit) <= AuditCap
  BY LoggersAssumption DEF TypeOK
<1>1. ASSUME UNCHANGED <<pc, call, audit, since>> PROVE Audited'
  BY <1>1 DEF Audited
<1>2. ASSUME NEW t \in Threads, UNCHANGED audit,
             \A o \in Threads : o # t => pc'[o] = pc[o] /\ call'[o] = call[o] /\ since'[o] = since[o],
             pc'[t] \in {"install", "emit", "process", "write"} /\ call'[t].user # NoUser =>
               /\ pc[t] \in {"install", "emit", "process", "write"} /\ since'[t] = since[t]
               /\ call'[t].user = call[t].user /\ call'[t].kept = call[t].kept
      PROVE  Audited'
  BY <1>2 DEF Audited
<1>3. ASSUME NEW t \in Threads, NEW level \in Levels, Log(t, level) \/ LogUnified(t, level) PROVE Audited'
  <2>1. /\ Called(t, level) \in Calls /\ Called(t, level).logger \in 1..made /\ Makes(t, Called(t, level))
        /\ Called(t, level).user = NoUser
        /\ pc' \in {[pc EXCEPT ![t] = "process"], [pc EXCEPT ![t] = "write"]}
    BY <1>3, CalledIs, MadeLoggers, MakingSteps DEF Log, LogUnified, Snapshot
  <2>2. /\ \A o \in Threads : o # t => pc'[o] = pc[o] /\ call'[o] = call[o]
        /\ call'[t].user = NoUser
    BY <1>0, <2>1, MakesIs
  <2>3. UNCHANGED <<audit, since>>
    BY <2>1 DEF Makes
  <2>. QED
    BY <1>2, <2>2, <2>3
<1>4. ASSUME NEW t \in Threads, Emit(t) PROVE Audited'
  <2>1. /\ call[t] \in Calls /\ call[t].logger \in 1..made /\ pc[t] = "emit" /\ pc' = [pc EXCEPT ![t] = "process"]
        /\ Makes(t, call[t])
    BY <1>4, MadeLoggers, MakingSteps DEF TypeOK, Borrowed, InSecured, Emit, Snapshot
  <2>2. /\ \A o \in Threads : o # t => pc'[o] = pc[o] /\ call'[o] = call[o]
        /\ call'[t].user = call[t].user /\ call'[t].kept = call[t].kept
    BY <1>0, <2>1, MakesIs
  <2>3. UNCHANGED <<audit, since>>
    BY <2>1 DEF Makes
  <2>. QED
    BY <1>2, <2>1, <2>2, <2>3
<1>5. ASSUME NEW t \in Threads, ProcessEntry(t) PROVE Audited'
  <2>1. /\ UNCHANGED <<audit, since>> /\ pc[t] = "process"
        /\ \A o \in Threads : o # t => pc'[o] = pc[o] /\ call'[o] = call[o]
    BY <1>0, <1>5, ProcessIs
  <2>2. pc'[t] = "idle" \/ (call'[t].user = call[t].user /\ call'[t].kept = call[t].kept)
    <3>1. CASE pc' = [pc EXCEPT ![t] = "idle"]
      BY <1>0, <3>1
    <3>2. CASE call'[t].user = call[t].user /\ call'[t].kept = call[t].kept
      BY <3>2
    <3>. QED
      BY <1>5, <3>1, <3>2, ProcessIs
  <2>. QED
    BY <1>2, <2>1, <2>2
<1>6. ASSUME NEW t \in Threads, Write(t) PROVE Audited'
  <2>1. /\ UNCHANGED audit /\ pc'[t] = "idle"
        /\ \A o \in Threads : o # t => pc'[o] = pc[o] /\ call'[o] = call[o] /\ since'[o] = since[o]
    BY <1>0, <1>6, WriteIs
  <2>. QED
    BY <1>2, <2>1
<1>7. ASSUME NEW t \in Threads, NEW u \in Users, LogWithSecurity(t, u) PROVE Audited'
  <2>1. /\ UNCHANGED <<audit, since>> /\ pc'[t] = "filter"
        /\ \A o \in Threads : o # t => pc'[o] = pc[o] /\ call'[o] = call[o]
    BY <1>0, <1>7, LogWithSecurityIs
  <2>. QED
    BY <1>2, <2>1
<1>8. ASSUME NEW t \in Threads, FilterFieldsByAccess(t) PROVE Audited'
  <2>. DEFINE seen == DOMAIN call'[t].kept
              e == [user |-> call[t].user, keys |-> seen \cap Personal]
  <2>1. /\ pc' = [pc EXCEPT ![t] = "install"] /\ call'[t].user = call[t].user
        /\ \A o \in Threads : o # t => call'[o] = call[o]
    BY <1>8, FilterIs
  <2>2. IF seen \cap Personal # {} THEN RecordAudit(t, e) ELSE UNCHANGED <<audit, since>>
    BY <1>8, FilterIs
  <2>. HIDE DEF e, seen
  <2>3. /\ pc'[t] = "install" /\ call'[t].user = call[t].user
        /\ \A o \in Threads : o # t => pc'[o] = pc[o] /\ call'[o] = call[o]
        /\ IF seen \cap Personal # {} THEN RecordAudit(t, e) ELSE UNCHANGED <<audit, since>>
    BY <1>0, <2>1, <2>2
  <2>. USE DEF e, seen
  <2>4. CASE seen \cap Personal = {}
    BY <2>3, <2>4 DEF Audited
  <2>5. CASE seen \cap Personal # {}
    <3>1. RecordAudit(t, e)
      BY <2>3, <2>5
    <3>2. e \in [user : Readers, keys : SUBSET Keys]
      BY LoggersAssumption DEF TypeOK, Calls
    <3>. HIDE DEF e
    <3>3. /\ Len(audit') = IF Len(audit) < AuditCap THEN Len(audit) + 1 ELSE Len(audit)
          /\ audit'[Len(audit')] = e /\ Len(audit') > 0
          /\ Len(audit) < AuditCap => \A i \in 1..Len(audit) : audit'[i] = audit[i]
          /\ Len(audit) = AuditCap => \A i \in 2..Len(audit) : audit'[i - 1] = audit[i]
          /\ since'[t] = 0
          /\ \A o \in Threads : o # t => since'[o] = IF since[o] < AuditCap THEN since[o] + 1 ELSE since[o]
      BY <3>1, <3>2, AuditKept
    <3>4. ASSUME NEW o \in Threads, o # t, pc'[o] \in {"install", "emit", "process", "write"}, call'[o].user # NoUser,
                 DOMAIN call'[o].kept \cap Personal # {}, since'[o] # AuditCap
          PROVE  /\ since'[o] < Len(audit')
                 /\ audit'[Len(audit') - since'[o]] =
                      [user |-> call'[o].user, keys |-> DOMAIN call'[o].kept \cap Personal]
      <4>1. since[o] \in 0..AuditCap /\ since[o] < AuditCap /\ since'[o] = since[o] + 1
        BY <1>0, <3>3, <3>4
      <4>2. /\ since[o] < Len(audit)
            /\ audit[Len(audit) - since[o]] =
                 [user |-> call'[o].user, keys |-> DOMAIN call'[o].kept \cap Personal]
        BY <2>3, <3>4, <4>1 DEF Audited
      <4>3. CASE Len(audit) < AuditCap
        <5>1. Len(audit') - since'[o] = Len(audit) - since[o] /\ Len(audit) - since[o] \in 1..Len(audit)
          BY <1>0, <3>3, <4>1, <4>2, <4>3
        <5>. QED
          BY <1>0, <3>3, <4>1, <4>2, <4>3, <5>1
      <4>4. CASE Len(audit) = AuditCap
        <5>1. /\ Len(audit') = Len(audit) /\ since'[o] < Len(audit')
              /\ Len(audit') - since'[o] = (Len(audit) - since[o]) - 1 /\ Len(audit) - since[o] \in 2..Len(audit)
          BY <1>0, <3>3, <3>4, <4>1, <4>2, <4>4
        <5>. QED
          BY <3>3, <4>2, <4>4, <5>1
      <4>. QED
        BY <1>0, <4>3, <4>4
    <3>5. /\ since'[t] < Len(audit') /\ Len(audit') - since'[t] = Len(audit')
          /\ audit'[Len(audit') - since'[t]] =
               [user |-> call'[t].user, keys |-> DOMAIN call'[t].kept \cap Personal]
      <4>1. since'[t] < Len(audit') /\ Len(audit') - since'[t] = Len(audit')
        BY <1>0, <3>3
      <4>. QED
        BY <2>3, <3>3, <4>1 DEF e
    <3>. QED
      BY <3>4, <3>5 DEF Audited
  <2>. QED
    BY <2>4, <2>5
<1>9. ASSUME NEW t \in Threads, WithOnlyFields(t) PROVE Audited'
  <2>1. /\ UNCHANGED <<audit, since, call>> /\ pc[t] = "install"
        /\ \A o \in Threads : o # t => pc'[o] = pc[o]
    BY <1>0, <1>9, WithOnlyFieldsIs
  <2>. QED
    BY <1>2, <2>1
<1>10. ASSUME NEW t \in Threads, Derives(t) PROVE Audited'
  BY <1>1, <1>10, DerivesIs
<1>11. CASE Sets
  BY <1>1, <1>11, SetsIs
<1>12. CASE UNCHANGED vars
  BY <1>1, <1>12 DEF vars
<1>. QED
  BY <1>3, <1>4, <1>5, <1>6, <1>7, <1>8, <1>9, <1>10, <1>11, <1>12, NextIs

----------------------------------------------------------------------------
(* The theorems.                                                           *)

LEMMA LoggersInit == Init => LoggersInv
<1>. SUFFICES ASSUME Init PROVE LoggersInv
  OBVIOUS
<1>1. TypeOK
  BY InitTypes
<1>2. made = 1 /\ given = base
  BY DEF Init
<1>3. \A t \in Threads : pc[t] = "idle" /\ covered[t] = {}
  BY DEF Init
<1>4. Derived
  BY <1>2 DEF Derived, Part
<1>5. Borrowed /\ Lines /\ Covers /\ RawOnlyInIds /\ Alone /\ Audited
  BY <1>3 DEF Borrowed, Lines, Covers, RawOnlyInIds, Alone, Audited, InSecured
<1>. QED
  BY <1>1, <1>4, <1>5 DEF LoggersInv, LinesInv, MaskedInv

LEMMA LoggersNext == LoggersInv /\ [Next]_vars => LoggersInv'
<1>. SUFFICES ASSUME LoggersInv, [Next]_vars PROVE LoggersInv'
  OBVIOUS
<1>1. TypeOK /\ LinesInv /\ MaskedInv /\ SecuredInv /\ Derived /\ Borrowed /\ Covers /\ Audited
  BY DEF LoggersInv, LinesInv, MaskedInv, SecuredInv
<1>2. TypeOK'
  BY <1>1, NextTypes
<1>3. LinesInv'
  BY <1>1, DerivedNext, BorrowedNext, LinesNext DEF LinesInv
<1>4. MaskedInv'
  BY <1>1, CoversNext, RawNext DEF MaskedInv
<1>5. Alone' /\ Audited'
  BY <1>1, AloneNext, AuditedNext
<1>. QED
  BY <1>2, <1>3, <1>4, <1>5 DEF LoggersInv

THEOREM LoggersCorrect == Spec => []LoggersInv
BY LoggersInit, LoggersNext, PTL DEF Spec

\* A line shows the fields its logger was derived with, as they were attached or masked, and
\* none of another logger, whatever the interleaving of the goroutines.
THEOREM LinesIsolated == Spec => []LineIsolated
<1>1. LoggersInv => LineIsolated
  <2>. SUFFICES ASSUME LoggersInv, NEW t \in Threads, pc[t] = "write"
                PROVE  LET c == call[t]
                           g == given[c.logger]
                           odd == {k \in DOMAIN g \cap Ids : g[k].text \in {"number", "struct"}}
                       IN  /\ Printed(c) \subseteq DOMAIN g \ odd
                           /\ c.logger # Root => Printed(c) = DOMAIN g \ odd
                           /\ \A k \in DOMAIN c.top : c.top[k] = g[k]
                           /\ \A k \in DOMAIN c.fields : Same(c.fields[k], g[k])
    BY DEF LineIsolated, Same
  <2>. DEFINE c == call[t]
              g == given[c.logger]
              odd == {k \in DOMAIN g \cap Ids : g[k].text \in {"number", "struct"}}
  <2>1. LineOf(c, g)
    BY DEF LoggersInv, LinesInv, Lines
  <2>. HIDE DEF c, g
  <2>2. Printed(c) \subseteq DOMAIN g \ odd
    BY <2>1 DEF LineOf, Printed
  <2>3. c.logger # Root => DOMAIN g \ odd \subseteq Printed(c)
    BY <2>1 DEF LineOf, Printed
  <2>4. /\ \A k \in DOMAIN c.top : c.top[k] = g[k]
        /\ \A k \in DOMAIN c.fields : Same(c.fields[k], g[k])
    BY <2>1 DEF LineOf
  <2>. QED
    BY <2>2, <2>3, <2>4 DEF c, g
<1>. QED
  BY <1>1, LoggersCorrect, PTL

\* Whatever the strategies in force while a line is made, a masker at work all the time leaves
\* nothing it knows readable below the top of the line.
THEOREM MaskersMask == Spec => []RawOnlyInIds
<1>1. LoggersInv => RawOnlyInIds
  BY DEF LoggersInv, MaskedInv
<1>. QED
  BY <1>1, LoggersCorrect, PTL

\* A secured line that no other secured call overlapped shows its reader no field that the
\* rules kept from him.
THEOREM SecuredFiltered == Spec => []SecuredLineFiltered
<1>1. LoggersInv => SecuredLineFiltered
  <2>. SUFFICES ASSUME LoggersInv, NEW t \in Threads, Secured(t), t \notin overlapped
                PROVE  Printed(call[t]) \subseteq DOMAIN call[t].kept
    BY DEF SecuredLineFiltered
  <2>. QED
    BY DEF LoggersInv, Alone, Secured, Printed
<1>. QED
  BY <1>1, LoggersCorrect, PTL

\* Such a line has a record of its own in the audit trail, until AuditCap others have come
\* after it.
THEOREM SecuredAudited == Spec => []PersonalDataAudited
<1>1. LoggersInv => PersonalDataAudited
  <2>. SUFFICES ASSUME LoggersInv, NEW t \in Threads, Secured(t), t \notin overlapped
                PROVE  LET seen == Printed(call[t]) \cap Personal
                       IN  \/ seen = {} \/ since[t] = AuditCap
                           \/ \E i \in DOMAIN audit : audit[i].user = call[t].user /\ seen \subseteq audit[i].keys
    BY DEF PersonalDataAudited
  <2>1. Printed(call[t]) \subseteq DOMAIN call[t].kept
    BY DEF LoggersInv, Alone, Secured, Printed
  <2>2. CASE DOMAIN call[t].kept \cap Personal = {} \/ since[t] = AuditCap
    BY <2>1, <2>2
  <2>3. CASE /\ since[t] < Len(audit)
             /\ audit[Len(audit) - since[t]] = [user |-> call[t].user, keys |-> DOMAIN call[t].kept \cap Personal]
    <3>1. since[t] \in Nat /\ audit \in Seq([user : Readers, keys : SUBSET Keys])
      BY LoggersAssumption DEF LoggersInv, TypeOK
    <3>2. Len(audit) - since[t] \in DOMAIN audit
      BY <2>3, <3>1
    <3>. QED
      BY <2>1, <2>3, <3>2
  <2>. QED
    BY <2>2, <2>3 DEF LoggersInv, Audited, Secured
<1>. QED
  BY <1>1, LoggersCorrect, PTL
============================================================================
