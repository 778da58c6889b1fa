---------------------------- MODULE MigrateProofs ---------------------------
(***************************************************************************)
(* Proofs about cmd/migrate for every folder of scripts, every number of   *)
(* concurrent migrators and every number of crashes.                       *)
(***************************************************************************)
EXTENDS Migrate, VersionsProofs

(***************************************************************************)
(* Facts about the order of scripts.                                       *)
(***************************************************************************)

\* The order of versions, in the form the proofs below use.
LEMMA Order ==
    /\ \A a \in Versions : ~Older(a, a) /\ SameVersion(a, a) /\ NotNewer(a, a)
    /\ \A a, b \in Versions : /\ Older(a, b) <=> ~NotNewer(b, a)
                              /\ NotNewer(a, b) <=> Older(a, b) \/ SameVersion(a, b)
                              /\ SameVersion(a, b) <=> SameVersion(b, a)
    /\ \A a, b, c \in Versions : NotNewer(a, b) /\ NotNewer(b, c) => NotNewer(a, c)
BY VersionOrder

\* slices.SortFunc is given a strict total order, so the next script is unique.
LEMMA ScriptOrder ==
    ASSUME NEW f \in Files, NEW g \in Files
    PROVE  /\ ~RunsBefore(f, f)
           /\ ~(RunsBefore(f, g) /\ RunsBefore(g, f))
           /\ RunsBefore(f, g) => NotNewer(VersionOf[f], VersionOf[g])
           /\ f = g \/ RunsBefore(f, g) \/ RunsBefore(g, f)
<1>1. VersionOf[f] \in Versions /\ VersionOf[g] \in Versions
    BY MigrateAssumption
<1>2. PathRank[f] \in Nat /\ PathRank[g] \in Nat /\ (PathRank[f] = PathRank[g] => f = g)
    BY MigrateAssumption
<1> QED BY <1>1, <1>2, Order DEF RunsBefore

LEMMA ScriptFacts ==
    ASSUME NEW f \in Files
    PROVE  /\ VersionOf[f] \in Versions
           /\ Len(Script[f]) \in Nat \ {0}
           /\ DOMAIN Script[f] = 1 .. Len(Script[f])
           /\ DOMAIN Script[f] \subseteq Nat
<1>1. Script[f] \in Seq(Statements) /\ Script[f] # <<>> /\ VersionOf[f] \in Versions
    BY MigrateAssumption
<1> QED BY <1>1

LEMMA StatementTable ==
    ASSUME NEW f \in Files, NEW i \in DOMAIN Script[f]
    PROVE  Script[f][i].on \in Tables
<1>1. Script[f] \in Seq(Statements)
    BY MigrateAssumption
<1>2. Script[f][i] \in Statements
    BY <1>1
<1> QED BY <1>2 DEF Statements

LEMMA NextUnique ==
    ASSUME NEW s \in SUBSET Files, NEW f \in s, NEW g \in s, IsNext(f, s), IsNext(g, s)
    PROVE  f = g
BY ScriptOrder DEF IsNext

(***************************************************************************)
(* Types.  TypeOK alone is not inductive: what a working migrator writes   *)
(* into the version row is a version because it once read it from there,   *)
(* and the statement it runs next exists.                                  *)
(***************************************************************************)
WorkTyped(m) ==
    /\ pc[m] \in {"open", "schema", "read", "exec", "bump", "checkpoint"} => db # "absent"
    /\ pc[m] \in {"exec", "bump"} => db = "ready" /\ version[m] \in Versions
    /\ pos[m] # 0 => DBType = "duckdb" /\ pc[m] = "exec" /\ todo[m] # {}
    /\ pc[m] = "exec" =>
         \A f \in todo[m] : IsNext(f, todo[m]) => pos[m] < Len(Script[f])

TypeInv == TypeOK /\ \A m \in Migrators : WorkTyped(m)

\* What one statement, or one script, does to the statements in force.
InForceTyped ==
    /\ done \in [Files -> SUBSET Nat] /\ gone \subseteq Tables
    /\ \A g \in Files : done[g] \subseteq DOMAIN Script[g]

LEMMA EffectTyped ==
    ASSUME InForceTyped, NEW f \in Files, NEW i \in DOMAIN Script[f]
    PROVE  /\ Effect(f, i) \in [Files -> SUBSET Nat] /\ GoneAfter(f, i) \subseteq Tables
           /\ \A g \in Files : Effect(f, i)[g] \subseteq DOMAIN Script[g]
           /\ ScriptEffect(f) \in [Files -> SUBSET Nat]
           /\ \A g \in Files : ScriptEffect(f)[g] \subseteq DOMAIN Script[g]
<1>1. /\ Script[f] \in Seq(Statements) /\ i \in Nat
      /\ \A g \in Files : DOMAIN Script[g] \subseteq Nat /\ done[g] \subseteq DOMAIN Script[g]
    BY MigrateAssumption DEF InForceTyped
<1>2. Script[f][i].on \in Tables
    BY StatementTable
<1>3. \A g \in Files : Effect(f, i)[g] \subseteq DOMAIN Script[g]
    BY <1>1 DEF Effect
<1>4. \A g \in Files : ScriptEffect(f)[g] \subseteq DOMAIN Script[g]
    BY <1>1 DEF ScriptEffect
<1>5. Effect(f, i) \in [Files -> SUBSET Nat]
    BY <1>1, <1>3 DEF Effect
<1>6. ScriptEffect(f) \in [Files -> SUBSET Nat]
    BY <1>1, <1>4 DEF ScriptEffect
<1>7. GoneAfter(f, i) \subseteq Tables
    BY <1>2 DEF GoneAfter, InForceTyped
<1> QED BY <1>3, <1>4, <1>5, <1>6, <1>7

\* A script takes nothing from the scripts before it.
LEMMA EffectFacts ==
    ASSUME InForceTyped, NEW f \in Files, NEW i \in DOMAIN Script[f]
    PROVE  /\ i \in Effect(f, i)[f] /\ ScriptEffect(f)[f] = DOMAIN Script[f]
           /\ \A k \in done[f] : ~Anew(f, i) \/ Script[f][k].on # Script[f][i].on => k \in Effect(f, i)[f]
           /\ \A g \in Files : g # f /\ g \notin Undoes(f) =>
                 done[g] \subseteq Effect(f, i)[g] /\ done[g] \subseteq ScriptEffect(f)[g]
           /\ \A g \in Files \ {f} : Effect(f, i)[g] \subseteq done[g] /\ ScriptEffect(f)[g] \subseteq done[g]
           /\ Effect(f, i)[f] \subseteq done[f] \cup {i}
           /\ Resets(f) = {} => \A g \in Files : done[g] \subseteq ScriptEffect(f)[g]
<1>1. i \in Effect(f, i)[f] /\ ScriptEffect(f)[f] = DOMAIN Script[f] /\ Effect(f, i)[f] \subseteq done[f] \cup {i}
    BY DEF Effect, ScriptEffect
<1>2. ASSUME NEW k \in done[f], ~Anew(f, i) \/ Script[f][k].on # Script[f][i].on
      PROVE  k \in Effect(f, i)[f]
    BY <1>2 DEF Effect, On
<1>3. ASSUME NEW g \in Files, g # f, g \notin Undoes(f) PROVE done[g] \subseteq Effect(f, i)[g]
    <2>1. ASSUME Anew(f, i), ~RunsBefore(g, f) PROVE On(g, Script[f][i].on) = {}
        <3>1. RunsBefore(f, g) /\ Script[f][i].does \in {"drop", "table"}
            BY <1>3, <2>1, ScriptOrder DEF Anew
        <3> QED BY <1>3, <3>1 DEF Undoes, On
    <2> QED BY <2>1 DEF Effect
<1>4. ASSUME NEW g \in Files, g # f, g \notin Undoes(f) PROVE done[g] \subseteq ScriptEffect(f)[g]
    <2>1. ASSUME RunsBefore(f, g), NEW k \in done[g] PROVE Script[g][k].on \notin Resets(f)
        BY <1>4, <2>1 DEF Undoes, Resets, On, InForceTyped
    <2> QED BY <1>4, <2>1 DEF ScriptEffect
<1>5. ASSUME NEW g \in Files \ {f} PROVE Effect(f, i)[g] \subseteq done[g] /\ ScriptEffect(f)[g] \subseteq done[g]
    BY DEF Effect, ScriptEffect
<1>6. ASSUME Resets(f) = {}, NEW g \in Files PROVE done[g] \subseteq ScriptEffect(f)[g]
    BY <1>6 DEF ScriptEffect, InForceTyped
<1> QED BY <1>1, <1>2, <1>3, <1>4, <1>5, <1>6

LEMMA TypeInit == Init => TypeInv
<1> SUFFICES ASSUME Init PROVE TypeInv
    OBVIOUS
<1> USE MigrateAssumption
<1>1. \A f \in Files : DOMAIN Script[f] \subseteq Nat
    OBVIOUS
<1>2. done \in [Files -> SUBSET Nat] /\ \A f \in Files : done[f] \subseteq DOMAIN Script[f]
    BY <1>1 DEF Init
<1>3. /\ db \in {"absent", "empty", "ready"}
      /\ recorded \in Versions \cup {NoVersion}
      /\ (db = "ready") <=> (recorded \in Versions)
    BY DEF Init
<1>4. TypeOK
    BY <1>2, <1>3 DEF Init, TypeOK, Stopped, Running
<1>5. \A m \in Migrators : WorkTyped(m)
    BY DEF Init, WorkTyped
<1> QED BY <1>4, <1>5 DEF TypeInv

\* Ending a migrator keeps its variables typed.
LEMMA TypeExit ==
    ASSUME TypeInv, NEW m \in Migrators, NEW how \in Stopped, Exit(m, how)
    PROVE  /\ pc' \in [Migrators -> Stopped \cup Running]
           /\ target' \in [Migrators -> Targets \cup {NoTarget}]
           /\ version' \in [Migrators -> Versions \cup {NoVersion}]
           /\ todo' \in [Migrators -> SUBSET Files]
           /\ pos' \in [Migrators -> Nat]
           /\ pc'[m] = how /\ pos'[m] = 0
           /\ \A n \in Migrators \ {m} :
                /\ pc'[n] = pc[n] /\ pos'[n] = pos[n]
                /\ version'[n] = version[n] /\ todo'[n] = todo[n]
BY DEF TypeInv, TypeOK, Exit, GoTo

LEMMA TypeNext == TypeInv /\ [Next]_vars => TypeInv'
<1> SUFFICES ASSUME TypeInv, [Next]_vars PROVE TypeInv'
    OBVIOUS
<1> USE MigrateAssumption
<1>0. CASE UNCHANGED vars
    BY <1>0 DEF vars, TypeInv, TypeOK, WorkTyped
<1>1. ASSUME NEW m \in Migrators, Start(m) PROVE TypeInv'
    <2>1. TypeOK'
        BY <1>1 DEF Start, GoTo, TypeInv, TypeOK, Stopped, Running, dbVars
    <2>2. ASSUME NEW n \in Migrators PROVE WorkTyped(n)'
        BY <1>1 DEF Start, GoTo, TypeInv, TypeOK, WorkTyped, Stopped, dbVars
    <2> QED BY <2>1, <2>2 DEF TypeInv
<1>2. ASSUME NEW m \in Migrators, CheckDBExists(m) PROVE TypeInv'
    <2>1. CASE Exit(m, "failed")
        BY <1>2, <2>1, TypeExit DEF CheckDBExists, TypeInv, TypeOK, WorkTyped, Stopped, dbVars
    <2>2. CASE UNCHANGED ownVars /\ \E p \in {"create", "open"} : GoTo(m, p)
        BY <1>2, <2>2 DEF CheckDBExists, GoTo, TypeInv, TypeOK, WorkTyped, Running, dbVars, ownVars
    <2> QED BY <1>2, <2>1, <2>2 DEF CheckDBExists
<1>3. ASSUME NEW m \in Migrators, CreateDatabase(m) PROVE TypeInv'
    <2>1. CASE Exit(m, "failed") /\ UNCHANGED db
        BY <1>3, <2>1, TypeExit DEF CreateDatabase, TypeInv, TypeOK, WorkTyped, Stopped
    <2>2. CASE UNCHANGED ownVars /\ GoTo(m, "schema") /\ ((db = "absent" /\ db' = "empty") \/ UNCHANGED db)
        BY <1>3, <2>2 DEF CreateDatabase, GoTo, TypeInv, TypeOK, WorkTyped, Running, ownVars
    <2> QED BY <1>3, <2>1, <2>2 DEF CreateDatabase
<1>4. ASSUME NEW m \in Migrators, InitSchema(m) PROVE TypeInv'
    <2>1. CASE Exit(m, "failed") /\ UNCHANGED dbVars
        BY <1>4, <2>1, TypeExit DEF InitSchema, TypeInv, TypeOK, WorkTyped, Stopped, dbVars
    <2>2. CASE /\ db = "empty" /\ db' = "ready" /\ recorded' = InitVersion
               /\ done' = [f \in Files |->
                    IF NotNewer(VersionOf[f], InitVersion) THEN DOMAIN Script[f] ELSE {}]
               /\ Exit(m, "created")
        <3>1. done' \in [Files -> SUBSET Nat] /\ \A f \in Files : done'[f] \subseteq DOMAIN Script[f]
            BY <2>2
        <3> QED BY <1>4, <2>2, <3>1, TypeExit DEF InitSchema, TypeInv, TypeOK, WorkTyped, Stopped
    <2> QED BY <1>4, <2>1, <2>2 DEF InitSchema
<1>5. ASSUME NEW m \in Migrators, OpenDB(m) PROVE TypeInv'
    <2>1. CASE Exit(m, "failed")
        BY <1>5, <2>1, TypeExit DEF OpenDB, TypeInv, TypeOK, WorkTyped, Stopped, dbVars
    <2>2. CASE UNCHANGED ownVars /\ GoTo(m, "read")
        BY <1>5, <2>2 DEF OpenDB, GoTo, TypeInv, TypeOK, WorkTyped, Running, dbVars, ownVars
    <2> QED BY <1>5, <2>1, <2>2 DEF OpenDB
<1>6. ASSUME NEW m \in Migrators, ReadVersion(m) PROVE TypeInv'
    <2>1. CASE Exit(m, "failed")
        BY <1>6, <2>1, TypeExit DEF ReadVersion, TypeInv, TypeOK, WorkTyped, Stopped, dbVars
    <2>2. CASE /\ db = "ready"
               /\ version' = [version EXCEPT ![m] = recorded]
               /\ todo' = [todo EXCEPT ![m] = Selected(recorded, target[m])]
               /\ GoTo(m, "exec")
               /\ UNCHANGED <<target, pos>>
        <3>1. UNCHANGED <<db, done, gone, recorded, aborts>> /\ recorded \in Versions /\ pos[m] = 0
            BY <1>6, <2>2 DEF ReadVersion, TypeInv, TypeOK, WorkTyped, dbVars
        <3>2. Selected(recorded, target[m]) \in SUBSET Files
            BY DEF Selected
        <3>3. TypeOK'
            BY <2>2, <3>1, <3>2 DEF GoTo, TypeInv, TypeOK, Running
        <3>4. ASSUME NEW n \in Migrators \ {m} PROVE WorkTyped(n)'
            BY <2>2, <3>1 DEF GoTo, TypeInv, TypeOK, WorkTyped
        <3>5. \A f \in todo'[m] : pos'[m] < Len(Script[f])
            BY <3>1, <3>2, <2>2, ScriptFacts DEF TypeInv, TypeOK
        <3>6. WorkTyped(m)'
            BY <2>2, <3>1, <3>5 DEF GoTo, TypeInv, TypeOK, WorkTyped
        <3> QED BY <3>3, <3>4, <3>6 DEF TypeInv
    <2> QED BY <1>6, <2>1, <2>2 DEF ReadVersion
<1>7. ASSUME NEW m \in Migrators, ExecScript(m) PROVE TypeInv'
    <2>1. CASE Exit(m, "failed") /\ UNCHANGED <<done, gone, recorded>>
        BY <1>7, <2>1, TypeExit DEF ExecScript, TypeInv, TypeOK, WorkTyped, Stopped
    <2>2. ASSUME NEW f \in todo[m], done' = ScriptEffect(f), GoTo(m, "bump"), UNCHANGED ownVars,
                 recorded' \in {recorded, VersionOf[f]}
          PROVE  TypeInv'
        <3>0. f \in Files /\ 1 \in DOMAIN Script[f]
            BY DEF TypeInv, TypeOK
        <3>a. InForceTyped
            BY DEF TypeInv, TypeOK, InForceTyped
        <3>1. done' \in [Files -> SUBSET Nat] /\ \A g \in Files : done'[g] \subseteq DOMAIN Script[g]
            BY <2>2, <3>0, <3>a, EffectTyped
        <3>2. db' = db /\ db = "ready" /\ recorded' \in Versions
            BY <1>7, <2>2, <3>0 DEF ExecScript, TypeInv, TypeOK, WorkTyped
        <3>3. pos[m] = 0
            BY <1>7 DEF ExecScript, TypeInv, WorkTyped
        <3> QED BY <1>7, <2>2, <3>1, <3>2, <3>3 DEF ExecScript, GoTo, TypeInv, TypeOK, WorkTyped, Running, ownVars
    <2> QED BY <1>7, <2>1, <2>2 DEF ExecScript
<1>8. ASSUME NEW m \in Migrators, ExecStatement(m) PROVE TypeInv'
    <2>1. CASE Exit(m, "failed") /\ UNCHANGED <<done, gone, recorded>>
        BY <1>8, <2>1, TypeExit DEF ExecStatement, TypeInv, TypeOK, WorkTyped, Stopped
    <2>2. ASSUME NEW f \in todo[m], NEW i, i = pos[m] + 1, IsNext(f, todo[m]),
                 done' = Effect(f, i), gone' = GoneAfter(f, i), recorded' \in {recorded, VersionOf[f]},
                 IF i = Len(Script[f])
                     THEN GoTo(m, "bump") /\ pos' = [pos EXCEPT ![m] = 0]
                     ELSE UNCHANGED pc /\ pos' = [pos EXCEPT ![m] = i],
                 UNCHANGED <<target, version, todo>>
          PROVE  TypeInv'
        <3>0. f \in Files /\ i \in DOMAIN Script[f] /\ i <= Len(Script[f]) /\ i \in Nat
            BY <1>8, <2>2 DEF ExecStatement, TypeInv, TypeOK, WorkTyped
        <3>a. InForceTyped
            BY DEF TypeInv, TypeOK, InForceTyped
        <3>1. /\ done' \in [Files -> SUBSET Nat] /\ gone' \subseteq Tables
              /\ \A g \in Files : done'[g] \subseteq DOMAIN Script[g]
            BY <2>2, <3>0, <3>a, EffectTyped
        <3>2. db' = db /\ db = "ready" /\ recorded' \in Versions
            BY <1>8, <2>2, <3>0 DEF ExecStatement, TypeInv, TypeOK, WorkTyped
        <3>b. pc' \in [Migrators -> Stopped \cup Running] /\ pos' \in [Migrators -> Nat]
            <4>1. CASE i = Len(Script[f])
                <5>1. pc' = [pc EXCEPT ![m] = "bump"] /\ pos' = [pos EXCEPT ![m] = 0]
                    BY <2>2, <4>1 DEF GoTo
                <5> QED BY <5>1 DEF TypeInv, TypeOK, Running
            <4>2. CASE i # Len(Script[f])
                BY <2>2, <3>0, <4>2 DEF TypeInv, TypeOK
            <4> QED BY <4>1, <4>2
        <3>3. TypeOK'
            BY <1>8, <2>2, <3>1, <3>2, <3>b DEF ExecStatement, TypeInv, TypeOK
        <3>4. ASSUME NEW n \in Migrators PROVE WorkTyped(n)'
            <4>1. CASE n # m
                BY <1>8, <2>2, <3>2, <4>1 DEF ExecStatement, GoTo, TypeInv, TypeOK, WorkTyped, IsNext, RunsBefore
            <4>2. CASE n = m /\ i = Len(Script[f])
                BY <1>8, <2>2, <3>2, <4>2 DEF ExecStatement, GoTo, TypeInv, TypeOK, WorkTyped
            <4>3. CASE n = m /\ i # Len(Script[f])
                <5>1. pc'[m] = "exec" /\ pos'[m] = i /\ version'[m] = version[m] /\ todo'[m] = todo[m]
                    BY <1>8, <2>2, <4>3 DEF ExecStatement, TypeInv, TypeOK
                <5>2. \A g \in todo[m] : IsNext(g, todo[m]) => g = f
                    BY <2>2, NextUnique DEF TypeInv, TypeOK
                <5>3. i < Len(Script[f])
                    BY <3>0, <4>3
                <5>4. \A g \in todo'[m] : IsNext(g, todo'[m]) => i < Len(Script[g])
                    BY <5>1, <5>2, <5>3
                <5> QED BY <1>8, <3>2, <4>3, <5>1, <5>4 DEF ExecStatement, TypeInv, WorkTyped, IsNext, RunsBefore
            <4> QED BY <4>1, <4>2, <4>3
        <3> QED BY <3>3, <3>4 DEF TypeInv
    <2> QED BY <1>8, <2>1, <2>2 DEF ExecStatement
<1>9. ASSUME NEW m \in Migrators, BumpVersion(m) PROVE TypeInv'
    <2>1. PICK f \in todo[m] :
            /\ recorded' = IF version[m] # VersionOf[f] THEN version[m] ELSE recorded
            /\ version' = [version EXCEPT ![m] = VersionOf[f]]
            /\ todo' = [todo EXCEPT ![m] = @ \ {f}]
        BY <1>9 DEF BumpVersion
    <2>2. f \in Files /\ VersionOf[f] \in Versions
        BY DEF TypeInv, TypeOK
    <2>3. db' = db /\ db = "ready" /\ version[m] \in Versions /\ pos[m] = 0
        BY <1>9 DEF BumpVersion, TypeInv, WorkTyped
    <2>4. TypeOK'
        BY <1>9, <2>1, <2>2, <2>3 DEF BumpVersion, GoTo, TypeInv, TypeOK, Running
    <2>5. ASSUME NEW n \in Migrators PROVE WorkTyped(n)'
        BY <1>9, <2>1, <2>2, <2>3 DEF BumpVersion, GoTo, TypeInv, TypeOK, WorkTyped
    <2> QED BY <2>4, <2>5 DEF TypeInv
<1>10. ASSUME NEW m \in Migrators, FinalVersion(m) PROVE TypeInv'
    <2>1. db' = db /\ db = "ready" /\ recorded' \in Versions /\ pos[m] = 0 /\ todo[m] = {}
        BY <1>10 DEF FinalVersion, TypeInv, WorkTyped
    <2>2. CASE DBType = "duckdb"
        BY <1>10, <2>1, <2>2 DEF FinalVersion, GoTo, ownVars, TypeInv, TypeOK, WorkTyped, Running
    <2>3. CASE DBType # "duckdb"
        BY <1>10, <2>1, <2>3, TypeExit DEF FinalVersion, TypeInv, TypeOK, WorkTyped, Stopped
    <2> QED BY <2>2, <2>3
<1>11. ASSUME NEW m \in Migrators, Checkpoint(m) PROVE TypeInv'
    BY <1>11, TypeExit DEF Checkpoint, TypeInv, TypeOK, WorkTyped, Stopped, dbVars
<1>12. ASSUME NEW m \in Migrators, Abort(m) PROVE TypeInv'
    BY <1>12, TypeExit DEF Abort, TypeInv, TypeOK, WorkTyped, Stopped, dbVars
<1> QED
    BY <1>0, <1>1, <1>2, <1>3, <1>4, <1>5, <1>6, <1>7, <1>8, <1>9, <1>10, <1>11, <1>12
    DEF Next, Step

\* The variables always have their types; in particular a database with a schema
\* has exactly one version recorded, and only statements that exist are in force.
THEOREM Typing == Spec => []TypeOK
<1>1. TypeInv => TypeOK
    BY DEF TypeInv
<1> QED BY <1>1, TypeInit, TypeNext, PTL DEF Spec

\* A database stays without schema only while somebody is about to complete it, or
\* after a run has died: initDB of two migrators cannot spoil each other's work.
THEOREM CreatedOrInterruptedThm == Spec => []CreatedOrInterrupted
<1>1. Init => CreatedOrInterrupted
    BY DEF Init, CreatedOrInterrupted
<1>2. TypeInv /\ CreatedOrInterrupted /\ [Next]_vars => CreatedOrInterrupted'
  <2> SUFFICES ASSUME TypeInv, CreatedOrInterrupted, [Next]_vars, db' = "empty"
               PROVE  aborts' > 0 \/ \E m \in Migrators : pc'[m] = "schema"
      BY DEF CreatedOrInterrupted
  <2>1. aborts \in Nat /\ pc \in [Migrators -> Stopped \cup Running]
      BY MigrateAssumption DEF TypeInv, TypeOK
  <2>2. CASE UNCHANGED vars
      BY <2>2 DEF vars, CreatedOrInterrupted
  <2>3. ASSUME NEW m \in Migrators, Abort(m) PROVE aborts' > 0
      BY <2>1, <2>3 DEF Abort
  <2>4. ASSUME NEW m \in Migrators, InitSchema(m) PROVE FALSE
      BY <2>4 DEF InitSchema, dbVars
  <2>5. ASSUME NEW m \in Migrators, CreateDatabase(m)
        PROVE  aborts' > 0 \/ \E n \in Migrators : pc'[n] = "schema"
      BY <2>1, <2>5 DEF CreateDatabase, GoTo, Exit, CreatedOrInterrupted
  <2>6. ASSUME NEW m \in Migrators,
               \/ Start(m) \/ CheckDBExists(m) \/ OpenDB(m) \/ ReadVersion(m) \/ ExecScript(m)
               \/ ExecStatement(m) \/ BumpVersion(m) \/ FinalVersion(m) \/ Checkpoint(m)
        PROVE  aborts' > 0 \/ \E n \in Migrators : pc'[n] = "schema"
    <3>1. db' = db /\ aborts' = aborts /\ pc[m] # "schema"
        BY <2>6 DEF Start, CheckDBExists, OpenDB, ReadVersion, ExecScript, ExecStatement, BumpVersion,
             FinalVersion, Checkpoint, dbVars, Stopped
    <3>2. \A n \in Migrators : n # m => pc'[n] = pc[n]
        BY <2>1, <2>6 DEF Start, CheckDBExists, OpenDB, ReadVersion, ExecScript, ExecStatement, BumpVersion,
             FinalVersion, Checkpoint, GoTo, Exit
    <3> QED BY <3>1, <3>2 DEF CreatedOrInterrupted
  <2> QED BY <2>2, <2>3, <2>4, <2>5, <2>6 DEF Next, Step
<1> QED BY <1>1, <1>2, TypeInit, TypeNext, PTL DEF Spec

(***************************************************************************)
(* Safety.  The inductive invariant says what a migrator knows while it    *)
(* works: every script outside its list that is not newer than its         *)
(* variable "version" is in force (so it may write that version into the   *)
(* row), its list holds exactly the scripts that are left up to            *)
(* -to-version, and the scripts of a database that is used by one migrator *)
(* at a time are never ahead of it (so a reset drops nothing that is       *)
(* recorded).                                                              *)
(***************************************************************************)
Exclusive == DBType = "duckdb" \/ \A m, n \in Migrators : m = n

OneAtATime ==
    Exclusive => \A m, n \in Migrators : pc[m] \in HasOpen /\ pc[n] \in HasOpen => m = n

Working(m) == pc[m] \in {"exec", "bump"}
Logged(m)  == pc[m] \in {"checkpoint", "success"}

ListIsRest(m) ==
    Working(m) =>
        /\ \A f \in Files \ todo[m] : NotNewer(VersionOf[f], version[m]) => Applied(f)
        /\ \A f \in Files \ todo[m] :
                Within(f, target[m]) => NotNewer(VersionOf[f], version[m])
        /\ \A f \in todo[m] : NotNewer(version[m], VersionOf[f]) /\ Within(f, target[m])

CurrentScript(m) ==
    /\ pc[m] = "exec" => \A f \in todo[m] : IsNext(f, todo[m]) => 1 .. pos[m] \subseteq done[f]
    /\ pc[m] = "bump" => \A f \in todo[m] : IsNext(f, todo[m]) => Applied(f)

\* Every script of the recorded version or an older one has done all it does.
RowIsTrue ==
    db = "ready" => \A f \in Files : NotNewer(VersionOf[f], recorded) => Applied(f)

RowIsBehind(m) ==
    Exclusive =>
        /\ pc[m] = "exec" => /\ NotNewer(recorded, version[m])
                             /\ \A f \in todo[m] : Older(recorded, VersionOf[f])
        /\ pc[m] = "bump" => \A f \in todo[m] :
             /\ IsNext(f, todo[m]) => NotNewer(recorded, VersionOf[f])
             /\ ~IsNext(f, todo[m]) => Older(recorded, VersionOf[f])

LoggedIsTrue(m) ==
    Logged(m) =>
        /\ db = "ready"
        /\ \A f \in Files : Within(f, target[m]) => Applied(f)
        /\ Exclusive => \A f \in Files : Within(f, target[m]) =>
             /\ NotNewer(VersionOf[f], recorded)
             /\ \A n \in Migrators : Working(n) => NotNewer(VersionOf[f], version[n])

MInv ==
    /\ TypeInv
    /\ RowIsTrue
    /\ OneAtATime
    /\ \A m \in Migrators : ListIsRest(m) /\ CurrentScript(m) /\ RowIsBehind(m) /\ LoggedIsTrue(m)

\* What is in the version row, or was read from it, is one of the names of the
\* folder or of the start: -to-version never gets there.
Named ==
    /\ recorded \in StoredVersions \cup {NoVersion}
    /\ \A m \in Migrators : version[m] \in StoredVersions \cup {NoVersion}

LEMMA NamedInit == Init => Named
BY DEF Init, Named, StoredVersions

LEMMA NamedNext ==
    ASSUME TypeInv, Named, [Next]_vars
    PROVE  Named'
<1>0. \A f \in Files : VersionOf[f] \in StoredVersions
    BY DEF StoredVersions
<1>v. version \in [Migrators -> Versions \cup {NoVersion}] /\ todo \in [Migrators -> SUBSET Files]
    BY DEF TypeInv, TypeOK
<1>1. CASE UNCHANGED vars
    BY <1>1 DEF vars, Named
<1>2. ASSUME NEW m \in Migrators, NEW how \in Stopped, Exit(m, how) PROVE \A n \in Migrators : version'[n] \in StoredVersions \cup {NoVersion}
    BY <1>2, <1>v DEF Exit, Named
<1>3. ASSUME NEW m \in Migrators, Start(m) \/ CheckDBExists(m) \/ CreateDatabase(m) \/ OpenDB(m) \/ Checkpoint(m) \/ Abort(m)
      PROVE Named'
    BY <1>2, <1>3 DEF Named, Start, CheckDBExists, CreateDatabase, OpenDB, Checkpoint, Abort, dbVars, ownVars, Stopped
<1>4. ASSUME NEW m \in Migrators, InitSchema(m) PROVE Named'
    BY <1>2, <1>4 DEF Named, InitSchema, dbVars, Stopped, StoredVersions
<1>5. ASSUME NEW m \in Migrators, ReadVersion(m) PROVE Named'
    BY <1>2, <1>5, <1>v DEF Named, ReadVersion, dbVars, Stopped
<1>6. ASSUME NEW m \in Migrators, ExecScript(m) PROVE Named'
    BY <1>0, <1>2, <1>6, <1>v DEF Named, ExecScript, ownVars, Stopped
<1>7. ASSUME NEW m \in Migrators, ExecStatement(m) PROVE Named'
    BY <1>0, <1>2, <1>7, <1>v DEF Named, ExecStatement, Stopped
<1>8. ASSUME NEW m \in Migrators, BumpVersion(m) PROVE Named'
    BY <1>0, <1>8, <1>v DEF Named, BumpVersion
<1>9. ASSUME NEW m \in Migrators, FinalVersion(m) PROVE Named'
    BY <1>2, <1>9, <1>v DEF Named, FinalVersion, ownVars, Stopped
<1> QED BY <1>1, <1>3, <1>4, <1>5, <1>6, <1>7, <1>8, <1>9 DEF Next, Step

LEMMA WithinDown ==
    ASSUME NEW f \in Files, NEW g \in Files, NEW t \in Versions \cup {NoTarget},
           Within(f, t), NotNewer(VersionOf[g], VersionOf[f])
    PROVE  Within(g, t)
BY ScriptFacts, Order DEF Within

\* A script that sorts before the one at hand is in force.
LEMMA EarlierApplied ==
    ASSUME MInv, NEW m \in Migrators, Working(m), NEW f \in todo[m], IsNext(f, todo[m]),
           NEW g \in Files
    PROVE  /\ RunsBefore(g, f) => g \notin todo[m] /\ Applied(g)
           /\ g \notin todo[m] /\ NotNewer(VersionOf[g], VersionOf[f]) => Applied(g)
<1>1. f \in Files /\ target[m] \in Versions \cup {NoTarget}
    BY MigrateAssumption DEF MInv, TypeInv, TypeOK
<1>2. RunsBefore(g, f) => g \notin todo[m] /\ NotNewer(VersionOf[g], VersionOf[f])
    BY <1>1, ScriptOrder DEF IsNext
<1>3. ASSUME g \notin todo[m], NotNewer(VersionOf[g], VersionOf[f]) PROVE Applied(g)
    <2>1. Within(g, target[m])
        BY <1>1, <1>3, WithinDown DEF MInv, ListIsRest
    <2> QED BY <1>3, <2>1 DEF MInv, ListIsRest
<1> QED BY <1>2, <1>3

LEMMA SafetyInit == Init => MInv
<1> SUFFICES ASSUME Init PROVE MInv
    OBVIOUS
<1>1. RowIsTrue
    BY DEF Init, RowIsTrue, Applied
<1>2. OneAtATime
    BY DEF Init, OneAtATime, HasOpen
<1>3. ASSUME NEW m \in Migrators
      PROVE  ListIsRest(m) /\ CurrentScript(m) /\ RowIsBehind(m) /\ LoggedIsTrue(m)
    BY DEF Init, ListIsRest, CurrentScript, RowIsBehind, LoggedIsTrue, Working, Logged
<1> QED BY <1>1, <1>2, <1>3, TypeInit DEF MInv

\* A step of m that touches neither the scripts in force nor the version row, and
\* after which m is not at work, preserves the invariant.
LEMMA QuietStep ==
    ASSUME MInv, TypeInv', OneAtATime', NEW m \in Migrators,
           UNCHANGED <<done, recorded>>,
           UNCHANGED db \/ (db = "absent" /\ db' = "empty"),
           \A n \in Migrators \ {m} :
               /\ pc'[n] = pc[n] /\ target'[n] = target[n] /\ version'[n] = version[n]
               /\ todo'[n] = todo[n] /\ pos'[n] = pos[n],
           pc'[m] \notin {"exec", "bump"},
           pc'[m] \in {"checkpoint", "success"} =>
               pc[m] = "checkpoint" /\ target'[m] = target[m]
    PROVE  MInv'
<1>1. \A f \in Files : Applied(f)' <=> Applied(f)
    BY DEF Applied
<1>2. RowIsTrue'
    BY <1>1 DEF MInv, RowIsTrue
<1>3. ASSUME NEW n \in Migrators
      PROVE  (ListIsRest(n) /\ CurrentScript(n) /\ RowIsBehind(n))'
    <2>1. CASE n = m
        BY <2>1 DEF ListIsRest, CurrentScript, RowIsBehind, Working
    <2>2. CASE n # m
        <3>1. /\ pc'[n] = pc[n] /\ target'[n] = target[n] /\ version'[n] = version[n]
              /\ todo'[n] = todo[n] /\ pos'[n] = pos[n]
            BY <2>2
        <3>2. ListIsRest(n)'
            BY <1>1, <3>1 DEF MInv, ListIsRest, Working
        <3>3. CurrentScript(n)'
            <4>1. todo[n] \subseteq Files /\ CurrentScript(n) /\ done' = done
                BY DEF MInv, TypeInv, TypeOK
            <4> QED BY <1>1, <3>1, <4>1 DEF CurrentScript
        <3>4. RowIsBehind(n)'
            BY <3>1 DEF MInv, RowIsBehind
        <3> QED BY <3>2, <3>3, <3>4
    <2> QED BY <2>1, <2>2
<1>4. ASSUME NEW n \in Migrators PROVE LoggedIsTrue(n)'
    <2>1. SUFFICES ASSUME Logged(n)' PROVE LoggedIsTrue(n)'
        BY DEF LoggedIsTrue
    <2>2. Logged(n) /\ target'[n] = target[n]
        BY <2>1 DEF Logged
    <2>3. \A k \in Migrators : Working(k)' => Working(k) /\ version'[k] = version[k]
        BY DEF Working
    <2> QED BY <1>1, <2>2, <2>3 DEF MInv, LoggedIsTrue
<1> QED BY <1>2, <1>3, <1>4 DEF MInv

\* One Exec by migrator m of (a statement of) its next script f preserves the
\* invariant.  A reset is harmless: where it can happen m works alone, the row
\* is not ahead of f, and only scripts newer than f lose their results.
LEMMA ExecKeeps ==
    ASSUME WellFormed, MInv, TypeInv', NEW m \in Migrators, pc[m] = "exec",
           NEW f \in todo[m], IsNext(f, todo[m]),
           \A g \in Files : g # f /\ g \notin Undoes(f) => done[g] \subseteq done'[g],
           ~Exclusive => \A g \in Files : done[g] \subseteq done'[g],
           \/ recorded' = recorded
           \/ /\ recorded' = VersionOf[f]
              /\ pc'[m] = "bump"
              /\ \A g \in Files \ {f} :
                    SameVersion(VersionOf[g], VersionOf[f]) => RunsBefore(g, f),
           UNCHANGED <<db, target, version, todo>>,
           \A n \in Migrators \ {m} : pc'[n] = pc[n] /\ pos'[n] = pos[n],
           \/ pc'[m] = "bump" /\ Applied(f)'
           \/ pc'[m] = "exec" /\ 1 .. pos'[m] \subseteq done'[f]
    PROVE  MInv'
<1>1. /\ f \in Files /\ VersionOf[f] \in Versions /\ version[m] \in Versions
      /\ db = "ready" /\ recorded \in Versions
      /\ NotNewer(version[m], VersionOf[f]) /\ Working(m)
    BY ScriptFacts DEF MInv, TypeInv, TypeOK, WorkTyped, ListIsRest, Working
<1>2. ASSUME NEW g \in Files, ~Exclusive \/ (g # f /\ g \notin Undoes(f)), Applied(g) PROVE Applied(g)'
    <2>1. done'[g] \subseteq DOMAIN Script[g]
        BY DEF TypeInv, TypeOK
    <2> QED BY <1>2, <2>1 DEF Applied
<1>3. ASSUME NEW g \in Undoes(f) PROVE g \in Files /\ ~NotNewer(VersionOf[g], VersionOf[f])
    <2>1. g \in Files /\ VersionOf[g] \in Versions
        BY <1>1, MigrateAssumption DEF Undoes
    <2> QED BY <1>1, <2>1, Order DEF WellFormed, ResetsAreSafe
<1>4. Exclusive => NotNewer(recorded, version[m]) /\ Older(recorded, VersionOf[f])
    BY DEF MInv, RowIsBehind
<1>5. ASSUME NEW g \in Files, NotNewer(VersionOf[g], recorded) PROVE Applied(g)'
    <2>1. Applied(g)
        BY <1>1, <1>5 DEF MInv, RowIsTrue
    <2>2. Exclusive => g # f /\ g \notin Undoes(f)
        BY <1>1, <1>3, <1>4, <1>5, ScriptFacts, Order
    <2> QED BY <1>2, <2>1, <2>2
<1>6. RowIsTrue'
    <2>1. CASE recorded' = recorded
        BY <1>5, <2>1 DEF RowIsTrue
    <2>2. CASE recorded' # recorded
        <3>1. /\ recorded' = VersionOf[f] /\ Applied(f)'
              /\ \A g \in Files \ {f} : SameVersion(VersionOf[g], VersionOf[f]) => RunsBefore(g, f)
            BY <2>2
        <3>2. ASSUME NEW g \in Files \ {f}, NotNewer(VersionOf[g], VersionOf[f]) PROVE Applied(g)'
            <4>1. RunsBefore(g, f)
                BY <3>1, <3>2, <1>1, ScriptFacts, Order DEF RunsBefore
            <4>2. Applied(g)
                BY <1>1, <4>1, EarlierApplied
            <4> QED BY <1>2, <1>3, <3>2, <4>2
        <3> QED BY <3>1, <3>2 DEF RowIsTrue
    <2> QED BY <2>1, <2>2
<1>7. OneAtATime'
    <2>1. \A n \in Migrators : pc'[n] \in HasOpen <=> pc[n] \in HasOpen
        BY DEF HasOpen
    <2> QED BY <2>1 DEF MInv, OneAtATime
<1>8. ASSUME NEW n \in Migrators \ {m}, Working(n)
      PROVE  ~Exclusive /\ \A g \in Files : Applied(g) => Applied(g)'
    <2>1. ~Exclusive
        BY <1>8 DEF MInv, OneAtATime, Working, HasOpen
    <2> QED BY <1>2, <2>1
<1>9. ASSUME NEW n \in Migrators PROVE ListIsRest(n)'
    <2>1. CASE n = m
        <3>1. ASSUME NEW g \in Files \ todo[m], NotNewer(VersionOf[g], version[m]) PROVE Applied(g)'
            <4>1. Applied(g)
                BY <1>1, <3>1 DEF MInv, ListIsRest
            <4>2. g # f /\ g \notin Undoes(f)
                BY <1>1, <1>3, <3>1, ScriptFacts, Order
            <4> QED BY <1>2, <4>1, <4>2
        <3> QED BY <1>1, <2>1, <3>1 DEF MInv, ListIsRest
    <2>2. CASE n # m /\ Working(n)
        <3>1. \A g \in Files : Applied(g) => Applied(g)'
            BY <1>8, <2>2
        <3> QED BY <2>2, <3>1 DEF MInv, ListIsRest
    <2>3. CASE n # m /\ ~Working(n)
        BY <2>3 DEF ListIsRest, Working
    <2> QED BY <2>1, <2>2, <2>3
<1>10. ASSUME NEW n \in Migrators PROVE CurrentScript(n)'
    <2>1. CASE n = m
        <3>1. \A g \in todo[m] : IsNext(g, todo[m]) => g = f
            BY NextUnique DEF MInv, TypeInv, TypeOK
        <3> QED BY <2>1, <3>1 DEF CurrentScript
    <2>2. CASE n # m /\ Working(n)
        <3>1. \A g \in Files : Applied(g) => Applied(g)'
            BY <1>8, <2>2
        <3>2. \A g \in Files : done[g] \subseteq done'[g]
            BY <1>8, <2>2
        <3>3. pc'[n] = pc[n] /\ todo'[n] = todo[n] /\ pos'[n] = pos[n] /\ todo[n] \subseteq Files
            BY <2>2 DEF MInv, TypeInv, TypeOK
        <3> QED BY <3>1, <3>2, <3>3 DEF MInv, CurrentScript
    <2>3. CASE n # m /\ ~Working(n)
        BY <2>3 DEF CurrentScript, Working
    <2> QED BY <2>1, <2>2, <2>3
<1>11. ASSUME NEW n \in Migrators PROVE RowIsBehind(n)'
    <2>1. CASE n = m
        <3>1. \A g \in todo[m] : IsNext(g, todo[m]) => g = f
            BY NextUnique DEF MInv, TypeInv, TypeOK
        <3>2. Exclusive => NotNewer(recorded, VersionOf[f])
            BY <1>1, <1>4, Order
        <3>3. Exclusive => NotNewer(recorded', VersionOf[f])
            BY <1>1, <3>2, Order
        <3>4. Exclusive /\ pc'[m] = "exec" =>
                 NotNewer(recorded', version[m]) /\ \A g \in todo[m] : Older(recorded', VersionOf[g])
            BY <1>4 DEF MInv, RowIsBehind
        <3>5. ASSUME Exclusive, NEW g \in todo[m], g # f PROVE Older(recorded', VersionOf[g])
            <4>1. g \in Files /\ VersionOf[g] \in Versions
                BY ScriptFacts DEF MInv, TypeInv, TypeOK
            <4>2. CASE recorded' = recorded
                BY <3>5, <4>2 DEF MInv, RowIsBehind
            <4>3. CASE recorded' # recorded
                <5>1. recorded' = VersionOf[f] /\ RunsBefore(f, g) /\ ~RunsBefore(g, f)
                    BY <1>1, <3>5, <4>1, <4>3, ScriptOrder DEF IsNext
                <5>2. ~SameVersion(VersionOf[g], VersionOf[f])
                    BY <3>5, <4>1, <4>3, <5>1
                <5> QED BY <1>1, <4>1, <5>1, <5>2, Order DEF RunsBefore
            <4> QED BY <4>2, <4>3
        <3> QED BY <2>1, <3>1, <3>3, <3>4, <3>5 DEF RowIsBehind
    <2>2. CASE n # m
        BY <1>8, <2>2 DEF RowIsBehind, Working
    <2> QED BY <2>1, <2>2
<1>12. ASSUME NEW n \in Migrators PROVE LoggedIsTrue(n)'
    <2>1. SUFFICES ASSUME Logged(n)' PROVE LoggedIsTrue(n)'
        BY DEF LoggedIsTrue
    <2>2. n # m /\ Logged(n)
        BY <2>1 DEF Logged
    <2>3. ASSUME NEW g \in Files, Within(g, target[n]) PROVE Applied(g)'
        <3>1. CASE Exclusive
            BY <1>5, <2>2, <2>3, <3>1 DEF MInv, LoggedIsTrue
        <3>2. CASE ~Exclusive
            BY <1>2, <2>2, <2>3, <3>2 DEF MInv, LoggedIsTrue
        <3> QED BY <3>1, <3>2
    <2>4. ASSUME Exclusive, NEW g \in Files, Within(g, target[n]) PROVE NotNewer(VersionOf[g], recorded')
        <3>1. NotNewer(VersionOf[g], recorded) /\ NotNewer(VersionOf[g], version[m])
            BY <1>1, <2>2, <2>4 DEF MInv, LoggedIsTrue
        <3> QED BY <1>1, <3>1, ScriptFacts, Order
    <2>5. \A k \in Migrators : Working(k)' => Working(k)
        BY DEF Working
    <2> QED BY <2>2, <2>3, <2>4, <2>5 DEF MInv, LoggedIsTrue
<1> QED BY <1>6, <1>7, <1>9, <1>10, <1>11, <1>12 DEF MInv

LEMMA ReadKeeps ==
    ASSUME MInv, TypeInv', NEW m \in Migrators, ReadVersion(m), db = "ready"
    PROVE  MInv'
<1>1. /\ UNCHANGED <<db, done, recorded, target, pos>>
      /\ version' = [version EXCEPT ![m] = recorded]
      /\ todo' = [todo EXCEPT ![m] = Selected(recorded, target[m])]
      /\ pc' = [pc EXCEPT ![m] = "exec"] /\ pc[m] = "read"
    BY DEF ReadVersion, GoTo, dbVars
<1>2. /\ pc \in [Migrators -> Stopped \cup Running] /\ version \in [Migrators -> Versions \cup {NoVersion}]
      /\ todo \in [Migrators -> SUBSET Files] /\ recorded \in Versions /\ pos[m] = 0
    BY <1>1 DEF MInv, TypeInv, TypeOK, WorkTyped
<1>3. /\ pc'[m] = "exec" /\ version'[m] = recorded /\ todo'[m] = Selected(recorded, target[m])
      /\ target'[m] = target[m] /\ pos'[m] = 0
      /\ \A n \in Migrators \ {m} : /\ pc'[n] = pc[n] /\ version'[n] = version[n] /\ todo'[n] = todo[n]
                                    /\ target'[n] = target[n] /\ pos'[n] = pos[n]
    BY <1>1, <1>2
<1>4. \A f \in Files : Applied(f)' <=> Applied(f)
    BY <1>1 DEF Applied
<1>5. RowIsTrue'
    BY <1>1, <1>4 DEF MInv, RowIsTrue
<1>6. OneAtATime'
    <2>1. \A n \in Migrators : pc'[n] \in HasOpen <=> pc[n] \in HasOpen
        BY <1>1, <1>3 DEF HasOpen
    <2> QED BY <2>1 DEF MInv, OneAtATime
<1>7. ASSUME NEW n \in Migrators PROVE ListIsRest(n)'
    <2>1. CASE n = m
        <3>1. \A f \in Files : NotNewer(VersionOf[f], recorded) => Applied(f)
            BY DEF MInv, RowIsTrue
        <3>2. \A f \in todo'[m] : f \in Files /\ NotNewer(recorded, VersionOf[f]) /\ Within(f, target[m])
            BY <1>2, <1>3, ScriptFacts, Order DEF Selected
        <3>3. \A f \in Files \ todo'[m] : Within(f, target[m]) => NotNewer(VersionOf[f], recorded)
            BY <1>2, <1>3, ScriptFacts, Order DEF Selected
        <3> QED BY <1>3, <1>4, <2>1, <3>1, <3>2, <3>3 DEF ListIsRest
    <2>2. CASE n # m
        BY <1>3, <1>4, <2>2 DEF MInv, ListIsRest, Working
    <2> QED BY <2>1, <2>2
<1>8. ASSUME NEW n \in Migrators PROVE CurrentScript(n)'
    <2>1. CASE n = m
        BY <1>3, <2>1 DEF CurrentScript
    <2>2. CASE n # m
        <3>1. todo[n] \subseteq Files /\ CurrentScript(n)
            BY <1>2 DEF MInv
        <3> QED BY <1>1, <1>3, <1>4, <2>2, <3>1 DEF CurrentScript
    <2> QED BY <2>1, <2>2
<1>9. ASSUME NEW n \in Migrators PROVE RowIsBehind(n)'
    <2>1. CASE n = m
        <3>1. \A f \in todo'[m] : Older(recorded, VersionOf[f])
            BY <1>3 DEF Selected
        <3> QED BY <1>1, <1>2, <1>3, <2>1, <3>1, Order DEF RowIsBehind
    <2>2. CASE n # m
        BY <1>1, <1>3, <2>2 DEF MInv, RowIsBehind
    <2> QED BY <2>1, <2>2
<1>10. ASSUME NEW n \in Migrators PROVE LoggedIsTrue(n)'
    <2>1. SUFFICES ASSUME Logged(n)' PROVE LoggedIsTrue(n)'
        BY DEF LoggedIsTrue
    <2>2. n # m /\ Logged(n) /\ target'[n] = target[n]
        BY <1>3, <2>1 DEF Logged
    <2>3. \A k \in Migrators : Working(k)' => (k = m /\ version'[k] = recorded) \/ (Working(k) /\ version'[k] = version[k])
        BY <1>3 DEF Working
    <2> QED BY <1>1, <1>4, <2>2, <2>3 DEF MInv, LoggedIsTrue
<1> QED BY <1>5, <1>6, <1>7, <1>8, <1>9, <1>10 DEF MInv

\* Writing the completed version, not the script's own, is what makes the row
\* right: a version is complete when a script of another version comes next.
LEMMA BumpKeeps ==
    ASSUME WellFormed, MInv, Named, TypeInv', NEW m \in Migrators, BumpVersion(m)
    PROVE  MInv'
<1>1. PICK f \in todo[m] :
        /\ IsNext(f, todo[m])
        /\ recorded' = IF version[m] # VersionOf[f] THEN version[m] ELSE recorded
        /\ version' = [version EXCEPT ![m] = VersionOf[f]]
        /\ todo' = [todo EXCEPT ![m] = @ \ {f}]
    BY DEF BumpVersion
<1>2. /\ UNCHANGED <<db, done, target, pos>> /\ pc[m] = "bump" /\ pc' = [pc EXCEPT ![m] = "exec"]
    BY DEF BumpVersion, GoTo
<1>3. /\ f \in Files /\ VersionOf[f] \in Versions /\ version[m] \in Versions /\ recorded \in Versions
      /\ db = "ready" /\ Working(m) /\ pos[m] = 0 /\ todo[m] \subseteq Files
      /\ NotNewer(version[m], VersionOf[f]) /\ Applied(f)
    BY <1>1, <1>2, ScriptFacts DEF MInv, TypeInv, TypeOK, WorkTyped, ListIsRest, CurrentScript, Working
<1>4. /\ pc'[m] = "exec" /\ version'[m] = VersionOf[f] /\ todo'[m] = todo[m] \ {f} /\ pos'[m] = 0
      /\ \A n \in Migrators \ {m} : /\ pc'[n] = pc[n] /\ version'[n] = version[n] /\ todo'[n] = todo[n]
      /\ \A n \in Migrators : target'[n] = target[n] /\ pos'[n] = pos[n]
    BY <1>1, <1>2, <1>3 DEF MInv, TypeInv, TypeOK
<1>5. \A g \in Files : Applied(g)' <=> Applied(g)
    BY <1>2 DEF Applied
<1>6. RowIsTrue'
    <2>1. CASE version[m] = VersionOf[f]
        BY <1>1, <1>2, <1>5, <2>1 DEF MInv, RowIsTrue
    <2>2. CASE version[m] # VersionOf[f]
        <3>1. ASSUME NEW g \in Files, NotNewer(VersionOf[g], version[m]) PROVE Applied(g)
            <4>1. CASE g \notin todo[m]
                BY <1>3, <3>1, <4>1 DEF MInv, ListIsRest
            <4>2. CASE g \in todo[m]
                <5>1. NotNewer(VersionOf[f], VersionOf[g])
                    BY <1>1, <1>3, <4>2, ScriptOrder, ScriptFacts, Order DEF IsNext
                <5>2. NotNewer(VersionOf[f], version[m])
                    BY <1>3, <3>1, <5>1, ScriptFacts, Order
                <5>3. SameVersion(version[m], VersionOf[f])
                    BY <1>3, <5>2, Order
                <5>4. version[m] \in StoredVersions /\ VersionOf[f] \in StoredVersions
                    BY <1>3, MigrateAssumption DEF Named, StoredVersions
                <5> QED BY <2>2, <5>3, <5>4 DEF WellFormed, CanonicalVersions
            <4> QED BY <4>1, <4>2
        <3> QED BY <1>1, <1>5, <2>2, <3>1 DEF RowIsTrue
    <2> QED BY <2>1, <2>2
<1>7. OneAtATime'
    <2>1. \A n \in Migrators : pc'[n] \in HasOpen <=> pc[n] \in HasOpen
        BY <1>2, <1>4 DEF HasOpen
    <2> QED BY <2>1 DEF MInv, OneAtATime
<1>8. ASSUME NEW n \in Migrators PROVE ListIsRest(n)'
    <2>1. CASE n = m
        <3>1. ASSUME NEW g \in Files \ todo'[m], NotNewer(VersionOf[g], VersionOf[f]) PROVE Applied(g)
            BY <1>1, <1>3, <1>4, <3>1, EarlierApplied
        <3>2. ASSUME NEW g \in Files \ todo'[m], Within(g, target[m]) PROVE NotNewer(VersionOf[g], VersionOf[f])
            <4>1. CASE g = f
                BY <1>3, <4>1, Order
            <4>2. CASE g # f
                <5>1. NotNewer(VersionOf[g], version[m])
                    BY <1>3, <1>4, <3>2, <4>2 DEF MInv, ListIsRest
                <5> QED BY <1>3, <5>1, ScriptFacts, Order
            <4> QED BY <4>1, <4>2
        <3>3. ASSUME NEW g \in todo'[m] PROVE NotNewer(VersionOf[f], VersionOf[g]) /\ Within(g, target[m])
            <4>1. g \in todo[m] \ {f} /\ g \in Files
                BY <1>3, <1>4
            <4>2. NotNewer(VersionOf[f], VersionOf[g])
                BY <1>1, <1>3, <4>1, ScriptOrder DEF IsNext
            <4> QED BY <1>3, <4>1, <4>2 DEF MInv, ListIsRest
        <3> QED BY <1>4, <1>5, <2>1, <3>1, <3>2, <3>3 DEF ListIsRest
    <2>2. CASE n # m
        BY <1>4, <1>5, <2>2 DEF MInv, ListIsRest, Working
    <2> QED BY <2>1, <2>2
<1>9. ASSUME NEW n \in Migrators PROVE CurrentScript(n)'
    <2>1. CASE n = m
        BY <1>4, <2>1 DEF CurrentScript
    <2>2. CASE n # m
        <3>1. todo[n] \subseteq Files /\ CurrentScript(n)
            BY DEF MInv, TypeInv, TypeOK
        <3> QED BY <1>2, <1>4, <1>5, <2>2, <3>1 DEF CurrentScript
    <2> QED BY <2>1, <2>2
<1>10. ASSUME NEW n \in Migrators PROVE RowIsBehind(n)'
    <2>1. CASE n = m
        <3>1. Exclusive => NotNewer(recorded, VersionOf[f])
            BY <1>1, <1>2 DEF MInv, RowIsBehind
        <3>2. ASSUME Exclusive, NEW g \in todo'[m] PROVE Older(recorded', VersionOf[g])
            <4>1. g \in todo[m] /\ g # f /\ g \in Files /\ VersionOf[g] \in Versions
                BY <1>3, <1>4, <3>2, ScriptFacts
            <4>2. ~IsNext(g, todo[m]) /\ NotNewer(VersionOf[f], VersionOf[g])
                BY <1>1, <1>3, <4>1, NextUnique, ScriptOrder DEF IsNext
            <4>3. CASE version[m] = VersionOf[f]
                BY <1>1, <1>2, <3>2, <4>1, <4>2, <4>3 DEF MInv, RowIsBehind
            <4>4. CASE version[m] # VersionOf[f]
                <5>1. version[m] \in StoredVersions /\ VersionOf[f] \in StoredVersions
                    BY <1>3, MigrateAssumption DEF Named, StoredVersions
                <5>2. ~SameVersion(version[m], VersionOf[f])
                    BY <4>4, <5>1 DEF WellFormed, CanonicalVersions
                <5> QED BY <1>1, <1>3, <4>1, <4>2, <4>4, <5>2, Order
            <4> QED BY <4>3, <4>4
        <3> QED BY <1>1, <1>3, <1>4, <2>1, <3>1, <3>2 DEF RowIsBehind
    <2>2. CASE n # m
        BY <1>2, <1>4, <2>2 DEF MInv, OneAtATime, HasOpen, RowIsBehind
    <2> QED BY <2>1, <2>2
<1>11. ASSUME NEW n \in Migrators PROVE LoggedIsTrue(n)'
    <2>1. SUFFICES ASSUME Logged(n)' PROVE LoggedIsTrue(n)'
        BY DEF LoggedIsTrue
    <2>2. n # m /\ Logged(n) /\ target'[n] = target[n]
        BY <1>4, <2>1 DEF Logged
    <2>3. \A k \in Migrators : Working(k)' => Working(k) /\ (k # m => version'[k] = version[k])
        BY <1>2, <1>4 DEF Working
    <2>4. ASSUME Exclusive, NEW g \in Files, Within(g, target[n])
          PROVE  NotNewer(VersionOf[g], recorded') /\ NotNewer(VersionOf[g], version'[m])
        <3>1. NotNewer(VersionOf[g], recorded) /\ NotNewer(VersionOf[g], version[m])
            BY <1>3, <2>2, <2>4 DEF MInv, LoggedIsTrue
        <3>2. NotNewer(VersionOf[g], VersionOf[f])
            BY <1>3, <3>1, ScriptFacts, Order
        <3> QED BY <1>1, <1>4, <3>1, <3>2
    <2> QED BY <1>2, <1>5, <2>2, <2>3, <2>4 DEF MInv, LoggedIsTrue
<1> QED BY <1>6, <1>7, <1>8, <1>9, <1>10, <1>11 DEF MInv

LEMMA FinalKeeps ==
    ASSUME MInv, TypeInv', NEW m \in Migrators, FinalVersion(m)
    PROVE  MInv'
<1>1. /\ UNCHANGED <<db, done, target>> /\ pc[m] = "exec" /\ todo[m] = {} /\ recorded' = version[m]
      /\ pc' = [pc EXCEPT ![m] = IF DBType = "duckdb" THEN "checkpoint" ELSE "success"]
      /\ \A n \in Migrators \ {m} : version'[n] = version[n] /\ todo'[n] = todo[n] /\ pos'[n] = pos[n]
    BY DEF FinalVersion, GoTo, Exit, ownVars, MInv, TypeInv, TypeOK
<1>2. db = "ready" /\ version[m] \in Versions /\ recorded \in Versions /\ Working(m)
    BY <1>1 DEF MInv, TypeInv, TypeOK, WorkTyped, Working
<1>3. pc'[m] \in {"checkpoint", "success"} /\ \A n \in Migrators \ {m} : pc'[n] = pc[n]
    BY <1>1 DEF MInv, TypeInv, TypeOK
<1>4. \A f \in Files : Applied(f)' <=> Applied(f)
    BY <1>1 DEF Applied
<1>5. \A f \in Files : /\ NotNewer(VersionOf[f], version[m]) => Applied(f)
                       /\ Within(f, target[m]) => NotNewer(VersionOf[f], version[m])
    BY <1>1, <1>2 DEF MInv, ListIsRest
<1>6. RowIsTrue'
    BY <1>1, <1>4, <1>5 DEF RowIsTrue
<1>7. OneAtATime'
    <2>1. \A n \in Migrators : pc'[n] \in HasOpen => pc[n] \in HasOpen
        BY <1>1, <1>3 DEF HasOpen
    <2> QED BY <2>1 DEF MInv, OneAtATime
<1>8. ASSUME NEW n \in Migrators PROVE ListIsRest(n)' /\ CurrentScript(n)' /\ RowIsBehind(n)'
    <2>1. CASE n = m
        BY <1>3, <2>1 DEF ListIsRest, CurrentScript, RowIsBehind, Working
    <2>2. CASE n # m
        <3>1. ListIsRest(n)'
            BY <1>1, <1>3, <1>4, <2>2 DEF MInv, ListIsRest, Working
        <3>2. CurrentScript(n)'
            <4>1. todo[n] \subseteq Files /\ CurrentScript(n)
                BY DEF MInv, TypeInv, TypeOK
            <4> QED BY <1>1, <1>3, <1>4, <2>2, <4>1 DEF CurrentScript
        <3>3. RowIsBehind(n)'
            BY <1>1, <1>3, <2>2 DEF MInv, OneAtATime, HasOpen, RowIsBehind
        <3> QED BY <3>1, <3>2, <3>3
    <2> QED BY <2>1, <2>2
<1>9. ASSUME NEW n \in Migrators PROVE LoggedIsTrue(n)'
    <2>1. SUFFICES ASSUME Logged(n)' PROVE LoggedIsTrue(n)'
        BY DEF LoggedIsTrue
    <2>2. \A k \in Migrators : Working(k)' => k # m /\ Working(k) /\ version'[k] = version[k]
        BY <1>1, <1>3 DEF Working
    <2>3. Exclusive => \A k \in Migrators : ~Working(k)'
        BY <1>1, <2>2 DEF MInv, OneAtATime, HasOpen, Working
    <2>4. CASE n = m
        BY <1>1, <1>2, <1>4, <1>5, <2>3, <2>4 DEF LoggedIsTrue
    <2>5. CASE n # m
        <3>1. Logged(n)
            BY <1>3, <2>1, <2>5 DEF Logged
        <3> QED BY <1>1, <1>2, <1>4, <2>3, <3>1 DEF MInv, LoggedIsTrue
    <2> QED BY <2>4, <2>5
<1> QED BY <1>6, <1>7, <1>8, <1>9 DEF MInv

\* A migrator creates the schema when no other one is at work: all of them need
\* a database that has it.
LEMMA InitSchemaKeeps ==
    ASSUME MInv, TypeInv', NEW m \in Migrators, InitSchema(m), db = "empty"
    PROVE  MInv'
<1>1. /\ db' = "ready" /\ recorded' = InitVersion /\ Exit(m, "created")
      /\ done' = [f \in Files |->
                    IF NotNewer(VersionOf[f], InitVersion) THEN DOMAIN Script[f] ELSE {}]
    BY DEF InitSchema, dbVars
<1>2. /\ pc'[m] = "created"
      /\ \A n \in Migrators \ {m} : pc'[n] = pc[n]
    BY <1>1 DEF Exit, GoTo, MInv, TypeInv, TypeOK
<1>3. \A n \in Migrators : ~Working(n) /\ ~Logged(n)
    BY DEF MInv, TypeInv, WorkTyped, LoggedIsTrue, Working
<1>4. \A n \in Migrators : ~Working(n)' /\ ~Logged(n)'
    BY <1>2, <1>3 DEF Working, Logged
<1>5. RowIsTrue'
    BY <1>1 DEF RowIsTrue, Applied
<1>6. OneAtATime'
    BY <1>2 DEF MInv, OneAtATime, HasOpen
<1> QED BY <1>4, <1>5, <1>6 DEF MInv, ListIsRest, CurrentScript, RowIsBehind, LoggedIsTrue, Working

\* A migrator that ends without success leaves the others as they were.
LEMMA ExitKeeps ==
    ASSUME MInv, TypeInv', NEW m \in Migrators, NEW how \in {"failed", "success"}, Exit(m, how),
           how = "success" => pc[m] = "checkpoint", UNCHANGED <<db, done, recorded>>
    PROVE  MInv'
<1>1. /\ pc'[m] = how /\ target' = target
      /\ \A n \in Migrators \ {m} :
            /\ pc'[n] = pc[n] /\ target'[n] = target[n] /\ version'[n] = version[n]
            /\ todo'[n] = todo[n] /\ pos'[n] = pos[n]
    BY DEF Exit, GoTo, MInv, TypeInv, TypeOK
<1>2. OneAtATime'
    BY <1>1 DEF MInv, OneAtATime, HasOpen
<1>3. pc'[m] \notin {"exec", "bump"}
    BY <1>1
<1>4. pc'[m] \in {"checkpoint", "success"} => pc[m] = "checkpoint" /\ target'[m] = target[m]
    BY <1>1
<1> QED BY <1>1, <1>2, <1>3, <1>4, QuietStep

\* So does one that moves on towards its database.
LEMMA MoveKeeps ==
    ASSUME MInv, TypeInv', NEW m \in Migrators, NEW p \in {"check", "create", "schema", "open", "read"},
           GoTo(m, p), UNCHANGED <<done, recorded, version, todo, pos>>,
           \E t : target' = [target EXCEPT ![m] = t],
           UNCHANGED db \/ (db = "absent" /\ db' = "empty"),
           p \in {"schema", "read"} => ~LockedFor(m)
    PROVE  MInv'
<1>1. /\ pc'[m] = p
      /\ \A n \in Migrators \ {m} :
            /\ pc'[n] = pc[n] /\ target'[n] = target[n] /\ version'[n] = version[n]
            /\ todo'[n] = todo[n] /\ pos'[n] = pos[n]
    BY DEF GoTo, MInv, TypeInv, TypeOK
<1>2. OneAtATime'
    <2>1. CASE p \notin {"schema", "read"}
        BY <1>1, <2>1 DEF MInv, OneAtATime, HasOpen
    <2>2. CASE DBType = "duckdb" /\ ~LockedFor(m)
        BY <1>1, <2>2 DEF MInv, OneAtATime, LockedFor, Exclusive
    <2>3. CASE DBType # "duckdb"
        BY <2>3 DEF OneAtATime, Exclusive
    <2> QED BY <2>1, <2>2, <2>3
<1>3. pc'[m] \notin {"exec", "bump"} /\ pc'[m] \notin {"checkpoint", "success"}
    BY <1>1
<1> QED BY <1>1, <1>2, <1>3, QuietStep

LEMMA SafetyNext ==
    ASSUME WellFormed, MInv, Named, [Next]_vars
    PROVE  MInv'
<1>t. TypeInv'
    BY TypeNext DEF MInv
<1>u. target = [n \in Migrators |-> target[n]]
    BY DEF MInv, TypeInv, TypeOK
<1>0. CASE UNCHANGED vars
    <2>1. \A f \in Files : Applied(f)' <=> Applied(f)
        BY <1>0 DEF vars, Applied
    <2>2. /\ db' = db /\ done' = done /\ recorded' = recorded /\ pc' = pc /\ target' = target
          /\ version' = version /\ todo' = todo /\ pos' = pos
        BY <1>0 DEF vars
    <2>3. RowIsTrue' /\ OneAtATime'
        BY <2>1, <2>2 DEF MInv, RowIsTrue, OneAtATime
    <2>4. ASSUME NEW n \in Migrators PROVE ListIsRest(n)' /\ RowIsBehind(n)'
        BY <2>1, <2>2 DEF MInv, ListIsRest, RowIsBehind, Working
    <2>5. ASSUME NEW n \in Migrators PROVE CurrentScript(n)'
        <3>1. todo[n] \subseteq Files /\ CurrentScript(n)
            BY DEF MInv, TypeInv, TypeOK
        <3> QED BY <2>1, <2>2, <3>1 DEF CurrentScript
    <2>6. ASSUME NEW n \in Migrators PROVE LoggedIsTrue(n)'
        BY <2>1, <2>2 DEF MInv, LoggedIsTrue, Working, Logged
    <2> QED BY <1>t, <2>3, <2>4, <2>5, <2>6 DEF MInv
<1>1. ASSUME NEW m \in Migrators, Start(m) PROVE MInv'
    BY <1>1, <1>t, MoveKeeps DEF Start, dbVars
<1>2. ASSUME NEW m \in Migrators, CheckDBExists(m) PROVE MInv'
    <2>1. UNCHANGED <<db, done, recorded>>
        BY <1>2 DEF CheckDBExists, dbVars
    <2>2. CASE Exit(m, "failed")
        BY <1>t, <2>1, <2>2, ExitKeeps
    <2>3. ASSUME NEW p \in {"create", "open"}, GoTo(m, p), UNCHANGED ownVars PROVE MInv'
        <3>1. target' = [target EXCEPT ![m] = target[m]]
            BY <1>u, <2>3 DEF ownVars
        <3> QED BY <1>t, <2>1, <2>3, <3>1, MoveKeeps DEF ownVars
    <2> QED BY <1>2, <2>2, <2>3 DEF CheckDBExists
<1>3. ASSUME NEW m \in Migrators, CreateDatabase(m) PROVE MInv'
    <2>1. UNCHANGED <<done, gone, recorded>>
        BY <1>3 DEF CreateDatabase
    <2>2. CASE Exit(m, "failed") /\ UNCHANGED db
        BY <1>t, <2>1, <2>2, ExitKeeps
    <2>3. CASE /\ GoTo(m, "schema") /\ UNCHANGED ownVars /\ ~LockedFor(m)
               /\ UNCHANGED db \/ (db = "absent" /\ db' = "empty")
        <3>1. target' = [target EXCEPT ![m] = target[m]]
            BY <1>u, <2>3 DEF ownVars
        <3> QED BY <1>t, <2>1, <2>3, <3>1, MoveKeeps DEF ownVars
    <2>4. db = "absent" => ~LockedFor(m)
        BY DEF MInv, TypeInv, WorkTyped, LockedFor, HasOpen
    <2> QED BY <1>3, <2>2, <2>3, <2>4 DEF CreateDatabase
<1>4. ASSUME NEW m \in Migrators, InitSchema(m) PROVE MInv'
    <2>1. CASE db = "empty"
        BY <1>4, <1>t, <2>1, InitSchemaKeeps
    <2>2. CASE db # "empty"
        BY <1>4, <1>t, <2>2, ExitKeeps DEF InitSchema, dbVars
    <2> QED BY <2>1, <2>2
<1>5. ASSUME NEW m \in Migrators, OpenDB(m) PROVE MInv'
    <2>1. UNCHANGED <<db, done, recorded>>
        BY <1>5 DEF OpenDB, dbVars
    <2>2. CASE LockedFor(m)
        BY <1>5, <1>t, <2>1, <2>2, ExitKeeps DEF OpenDB
    <2>3. CASE ~LockedFor(m)
        <3>1. target' = [target EXCEPT ![m] = target[m]] /\ UNCHANGED ownVars /\ GoTo(m, "read")
            BY <1>5, <1>u, <2>3 DEF OpenDB, ownVars
        <3> QED BY <1>t, <2>1, <2>3, <3>1, MoveKeeps DEF ownVars
    <2> QED BY <2>2, <2>3
<1>6. ASSUME NEW m \in Migrators, ReadVersion(m) PROVE MInv'
    <2>1. CASE db = "ready"
        BY <1>6, <1>t, <2>1, ReadKeeps
    <2>2. CASE db # "ready"
        BY <1>6, <1>t, <2>2, ExitKeeps DEF ReadVersion, dbVars
    <2> QED BY <2>1, <2>2
<1>d. InForceTyped
    BY DEF MInv, TypeInv, TypeOK, InForceTyped
<1>7. ASSUME NEW m \in Migrators, ExecScript(m) PROVE MInv'
    <2>0. DBType = "postgres" /\ pc[m] = "exec" /\ UNCHANGED <<db, aborts>>
        BY <1>7 DEF ExecScript
    <2>1. CASE Exit(m, "failed") /\ UNCHANGED <<done, gone, recorded>>
        BY <1>t, <2>0, <2>1, ExitKeeps
    <2>2. ASSUME NEW f \in todo[m], IsNext(f, todo[m]), done' = ScriptEffect(f),
                 recorded' = IF \E i \in DOMAIN Script[f] : Script[f][i].does = "version"
                             THEN VersionOf[f] ELSE recorded,
                 GoTo(m, "bump"), UNCHANGED ownVars
          PROVE  MInv'
        <3>1. f \in Files /\ 1 \in DOMAIN Script[f]
            BY ScriptFacts DEF MInv, TypeInv, TypeOK
        <3>a. done' = ScriptEffect(f)
            BY <2>2
        <3>2. /\ Applied(f)'
              /\ \A g \in Files : g # f /\ g \notin Undoes(f) => done[g] \subseteq done'[g]
              /\ ~Exclusive => \A g \in Files : done[g] \subseteq done'[g]
            <4>1. ~Exclusive => Resets(f) = {}
                BY <3>1 DEF WellFormed, ResetsAreSafe, Exclusive
            <4> HIDE <2>2
            <4> QED BY <1>d, <3>1, <3>a, <4>1, EffectFacts DEF Applied
        <3>3. \/ recorded' = recorded
              \/ /\ recorded' = VersionOf[f]
                 /\ \A g \in Files \ {f} :
                        SameVersion(VersionOf[g], VersionOf[f]) => RunsBefore(g, f)
            BY <2>2, <3>1 DEF WellFormed, VersionSetLast
        <3>4. pc'[m] = "bump" /\ UNCHANGED <<db, target, version, todo>>
              /\ \A n \in Migrators \ {m} : pc'[n] = pc[n] /\ pos'[n] = pos[n]
            BY <2>0, <2>2 DEF GoTo, ownVars, MInv, TypeInv, TypeOK
        <3> QED BY <1>t, <2>0, <2>2, <3>2, <3>3, <3>4, ExecKeeps
    <2> QED BY <1>7, <2>1, <2>2 DEF ExecScript
<1>8. ASSUME NEW m \in Migrators, ExecStatement(m) PROVE MInv'
    <2>0. DBType = "duckdb" /\ pc[m] = "exec" /\ UNCHANGED <<db, aborts>>
        BY <1>8 DEF ExecStatement
    <2>1. CASE Exit(m, "failed") /\ UNCHANGED <<done, gone, recorded>>
        BY <1>t, <2>0, <2>1, ExitKeeps
    <2>2. ASSUME NEW f \in todo[m], NEW i, i = pos[m] + 1, IsNext(f, todo[m]),
                 done' = Effect(f, i),
                 recorded' = IF Script[f][i].does = "version" THEN VersionOf[f] ELSE recorded,
                 IF i = Len(Script[f])
                     THEN GoTo(m, "bump") /\ pos' = [pos EXCEPT ![m] = 0]
                     ELSE UNCHANGED pc /\ pos' = [pos EXCEPT ![m] = i],
                 UNCHANGED <<target, version, todo>>
          PROVE  MInv'
        <3>0. f \in Files /\ i \in Nat /\ i <= Len(Script[f]) /\ pos[m] \in Nat
              /\ 1 .. pos[m] \subseteq done[f]
            BY <2>0, <2>2, ScriptFacts DEF MInv, TypeInv, TypeOK, WorkTyped, CurrentScript
        <3>1. i \in DOMAIN Script[f] /\ DOMAIN Script[f] = 1 .. Len(Script[f])
            BY <2>2, <3>0, ScriptFacts
        <3>2. done' = Effect(f, i) /\ Exclusive
            BY <2>0, <2>2 DEF Exclusive
        <3>3. /\ i \in done'[f] /\ \A g \in Files : g # f /\ g \notin Undoes(f) => done[g] \subseteq done'[g]
              /\ \A k \in done[f] : ~Anew(f, i) \/ Script[f][k].on # Script[f][i].on => k \in done'[f]
              /\ done'[f] \subseteq DOMAIN Script[f]
            <4> HIDE <2>2
            <4> QED BY <1>d, <3>0, <3>1, <3>2, EffectFacts, EffectTyped
        <3>a. Anew(f, i) => \A k \in 1 .. (i - 1) : Script[f][k].on # Script[f][i].on
            BY <3>0, <3>1, MigrateAssumption DEF ScriptShape, Anew
        <3>b. 1 .. (i - 1) \subseteq done[f]
            BY <2>2, <3>0
        <3>4. 1 .. i \subseteq done'[f]
            <4>1. 1 .. (i - 1) \subseteq done'[f]
                BY <3>3, <3>a, <3>b
            <4> QED BY <3>0, <3>3, <4>1
        <3>5. i = Len(Script[f]) => Applied(f)'
            BY <3>1, <3>3, <3>4 DEF Applied
        <3>6. /\ \A n \in Migrators \ {m} : pc'[n] = pc[n] /\ pos'[n] = pos[n]
              /\ i = Len(Script[f]) => pc'[m] = "bump"
              /\ i # Len(Script[f]) => pc'[m] = "exec" /\ pos'[m] = i
            <4>1. CASE i = Len(Script[f])
                BY <2>2, <4>1 DEF GoTo, MInv, TypeInv, TypeOK
            <4>2. CASE i # Len(Script[f])
                BY <2>0, <2>2, <4>2 DEF MInv, TypeInv, TypeOK
            <4> QED BY <4>1, <4>2
        <3>7. \/ recorded' = recorded
              \/ /\ recorded' = VersionOf[f]
                 /\ pc'[m] = "bump"
                 /\ \A g \in Files \ {f} :
                        SameVersion(VersionOf[g], VersionOf[f]) => RunsBefore(g, f)
            BY <2>0, <2>2, <3>0, <3>1, <3>6 DEF WellFormed, VersionSetLast
        <3>8. (pc'[m] = "bump" /\ Applied(f)') \/ (pc'[m] = "exec" /\ 1 .. pos'[m] \subseteq done'[f])
            BY <3>4, <3>5, <3>6
        <3> QED BY <1>t, <2>0, <2>2, <3>2, <3>3, <3>6, <3>7, <3>8, ExecKeeps
    <2> QED BY <1>8, <2>1, <2>2 DEF ExecStatement
<1>9. ASSUME NEW m \in Migrators, BumpVersion(m) PROVE MInv'
    BY <1>9, <1>t, BumpKeeps
<1>10. ASSUME NEW m \in Migrators, FinalVersion(m) PROVE MInv'
    BY <1>10, <1>t, FinalKeeps
<1>11. ASSUME NEW m \in Migrators, Checkpoint(m) PROVE MInv'
    BY <1>11, <1>t, ExitKeeps DEF Checkpoint, dbVars
<1>12. ASSUME NEW m \in Migrators, Abort(m) PROVE MInv'
    BY <1>12, <1>t, ExitKeeps DEF Abort, dbVars
<1> QED
    BY <1>0, <1>1, <1>2, <1>3, <1>4, <1>5, <1>6, <1>7, <1>8, <1>9, <1>10, <1>11, <1>12
    DEF Next, Step

(***************************************************************************)
(* Tables that are gone.  Each was dropped by a script that has not        *)
(* created it again, and only DuckDB shows such a state.                   *)
(***************************************************************************)
GoneIsReset ==
    /\ db # "ready" \/ DBType = "postgres" => gone = {}
    /\ \A t \in gone : \E g \in Files : Resetting(g, t)

LEMMA GoneInit == Init => GoneIsReset
BY DEF Init, GoneIsReset

\* The table that a statement drops is being reset, and the resets of other tables
\* stay what they are.
LEMMA GoneStatement ==
    ASSUME GoneIsReset, NEW f \in Files, NEW i \in DOMAIN Script[f],
           done \in [Files -> SUBSET Nat], done' = Effect(f, i), gone' = GoneAfter(f, i), NEW t \in gone'
    PROVE  \E g \in Files : Resetting(g, t)'
<1>1. CASE Script[f][i].does = "drop" /\ Script[f][i].on = t
    <2>1. PICK j \in DOMAIN Script[f] : NextOnTable(f, i, j) /\ Script[f][j].does = "create"
        BY <1>1, MigrateAssumption DEF ScriptShape
    <2>2. i \in On(f, t) /\ j \in On(f, t) /\ j # i
        BY <1>1, <2>1 DEF NextOnTable, On
    <2>3. i \in done'[f] /\ j \notin done'[f]
        BY <1>1, <2>2, ScriptOrder DEF Effect, Anew
    <2> QED BY <1>1, <2>1, <2>2, <2>3 DEF Resetting
<1>2. CASE ~(Script[f][i].does = "drop" /\ Script[f][i].on = t)
    <2>1. t \in gone /\ (Anew(f, i) \/ Script[f][i].does = "create" => Script[f][i].on # t)
        BY <1>2 DEF GoneAfter, Anew
    <2>2. PICK g \in Files : Resetting(g, t)
        BY <2>1 DEF GoneIsReset
    <2>3. PICK k \in On(g, t), j \in On(g, t) :
                /\ Script[g][k].does = "drop" /\ k \in done[g]
                /\ Script[g][j].does = "create" /\ j \notin done[g]
        BY <2>2 DEF Resetting
    <2>4. k \in done'[g]
        BY <2>1, <2>3 DEF Effect, On
    <2>5. j \notin done'[g]
        <3>1. g = f => j # i
            BY <2>1, <2>3 DEF On
        <3> QED BY <2>3, <3>1 DEF Effect
    <2>6. Resetting(g, t)'
        BY <2>3, <2>4, <2>5 DEF Resetting
    <2> QED BY <2>6
<1> QED BY <1>1, <1>2

LEMMA GoneNext ==
    ASSUME TypeInv, GoneIsReset, [Next]_vars
    PROVE  GoneIsReset'
<1>1. ASSUME UNCHANGED <<done, gone>>, db' = "ready" \/ db # "ready" \/ db' = db PROVE GoneIsReset'
    <2>1. \A t \in gone : \E g \in Files : Resetting(g, t)'
        BY <1>1 DEF GoneIsReset, Resetting
    <2> QED BY <1>1, <2>1 DEF GoneIsReset
<1>2. CASE UNCHANGED vars
    BY <1>1, <1>2 DEF vars
<1>3. ASSUME NEW m \in Migrators,
             \/ Start(m) \/ CheckDBExists(m) \/ CreateDatabase(m) \/ OpenDB(m) \/ ReadVersion(m)
             \/ BumpVersion(m) \/ FinalVersion(m) \/ Checkpoint(m) \/ Abort(m)
      PROVE  GoneIsReset'
    BY <1>1, <1>3 DEF Start, CheckDBExists, CreateDatabase, OpenDB, ReadVersion, BumpVersion, FinalVersion,
        Checkpoint, Abort, dbVars
<1>4. ASSUME NEW m \in Migrators, InitSchema(m) PROVE GoneIsReset'
    <2>1. CASE UNCHANGED dbVars
        BY <1>1, <2>1 DEF dbVars
    <2>2. CASE db = "empty" /\ UNCHANGED gone
        BY <2>2 DEF GoneIsReset
    <2> QED BY <1>4, <2>1, <2>2 DEF InitSchema
<1>5. ASSUME NEW m \in Migrators, ExecScript(m) PROVE GoneIsReset'
    BY <1>5 DEF ExecScript, GoneIsReset
<1>6. ASSUME NEW m \in Migrators, ExecStatement(m) PROVE GoneIsReset'
    <2>0. DBType = "duckdb" /\ db' = db /\ db = "ready" /\ pc[m] = "exec" /\ pos[m] \in Nat /\ todo[m] \subseteq Files
        BY <1>6 DEF ExecStatement, TypeInv, TypeOK, WorkTyped
    <2>1. CASE UNCHANGED <<done, gone>>
        BY <1>1, <2>0, <2>1
    <2>2. CASE ~UNCHANGED <<done, gone>>
        <3>1. PICK f \in todo[m] : /\ IsNext(f, todo[m]) /\ done' = Effect(f, pos[m] + 1)
                                   /\ gone' = GoneAfter(f, pos[m] + 1)
            BY <1>6, <2>2 DEF ExecStatement
        <3>2. f \in Files /\ pos[m] + 1 \in DOMAIN Script[f]
            BY <2>0, <3>1, ScriptFacts DEF TypeInv, WorkTyped
        <3>3. done \in [Files -> SUBSET Nat]
            BY DEF TypeInv, TypeOK
        <3> QED BY <2>0, <3>1, <3>2, <3>3, GoneStatement DEF GoneIsReset
    <2> QED BY <2>1, <2>2
<1> QED BY <1>2, <1>3, <1>4, <1>5, <1>6 DEF Next, Step

\* What a script did is in force, or a script that has still something to do has
\* dropped its table.
LEMMA InForceOrReset ==
    ASSUME GoneIsReset, NEW f \in Files, Applied(f), NEW i \in DOMAIN Script[f]
    PROVE  \/ InForce(f, i)
           \/ \E g \in Files : Resetting(g, Script[f][i].on) /\ ~Applied(g)
BY DEF GoneIsReset, Resetting, Applied, InForce, On

\* All the invariants.
FullInv == MInv /\ Named /\ GoneIsReset

LEMMA FullInit == Init => FullInv
BY SafetyInit, NamedInit, GoneInit DEF FullInv

LEMMA FullNext ==
    ASSUME WellFormed, FullInv, [Next]_vars
    PROVE  FullInv'
BY SafetyNext, NamedNext, GoneNext DEF FullInv, MInv

\* For every folder whose versions are written in one way, whose scripts set the
\* version row last and whose resets are not shared: whatever migrators interleave and
\* wherever they are cut short, the version row never promises a script that is not
\* completely in force, but for tables that a script which the row does not promise has
\* dropped and will create when it is run.
THEOREM RecordedIsAppliedThm ==
    ASSUME WellFormed
    PROVE  Spec => []RecordedIsApplied
<1>1. FullInv /\ [Next]_vars => FullInv'
    BY FullNext
<1>2. FullInv => RecordedIsApplied
    <2> SUFFICES ASSUME FullInv, db = "ready", NEW f \in Files, NotNewer(VersionOf[f], recorded),
                        NEW i \in DOMAIN Script[f], ~InForce(f, i)
                 PROVE  \E g \in Files : Older(recorded, VersionOf[g]) /\ Resetting(g, Script[f][i].on)
        BY DEF RecordedIsApplied
    <2>1. PICK g \in Files : Resetting(g, Script[f][i].on) /\ ~Applied(g)
        BY InForceOrReset DEF FullInv, MInv, RowIsTrue
    <2>2. Older(recorded, VersionOf[g])
        BY <2>1, ScriptFacts, Order DEF FullInv, MInv, RowIsTrue, TypeInv, TypeOK
    <2> QED BY <2>1, <2>2
<1> QED BY <1>1, <1>2, FullInit, PTL DEF Spec

\* Under the same conditions "migrations applied successfully" is true when it is
\* logged, and stays true, but for tables that a script beyond -to-version has dropped.
THEOREM SuccessMeansAppliedThm ==
    ASSUME WellFormed
    PROVE  Spec => []SuccessMeansApplied
<1>1. FullInv /\ [Next]_vars => FullInv'
    BY FullNext
<1>2. FullInv => SuccessMeansApplied
    <2> SUFFICES ASSUME FullInv, NEW m \in Migrators, pc[m] \in {"checkpoint", "success"},
                        NEW f \in Files, Within(f, target[m]), NEW i \in DOMAIN Script[f], ~InForce(f, i)
                 PROVE  \E g \in Files : ~Within(g, target[m]) /\ Resetting(g, Script[f][i].on)
        BY DEF SuccessMeansApplied
    <2>1. \A g \in Files : Within(g, target[m]) => Applied(g)
        BY DEF FullInv, MInv, LoggedIsTrue, Logged
    <2>2. PICK g \in Files : Resetting(g, Script[f][i].on) /\ ~Applied(g)
        BY <2>1, InForceOrReset DEF FullInv
    <2> QED BY <2>1, <2>2
<1> QED BY <1>1, <1>2, FullInit, PTL DEF Spec

\* Under the same conditions the scripts take effect in their order, also when
\* several migrators work through different lists.
THEOREM ScriptsInOrderThm ==
    ASSUME WellFormed
    PROVE  Spec => ScriptsInOrder
<1> DEFINE Act ==
       \A f, g \in Files :
          (db = "ready" /\ ~(done'[f] \subseteq done[f]) /\ RunsBefore(g, f)) =>
            \A i \in DOMAIN Script[g] :
                InForce(g, i) \/ \E h \in Files : /\ ~RunsBefore(h, f)
                                                 /\ Resetting(h, Script[g][i].on)
<1>1. FullInv /\ [Next]_vars => FullInv'
    BY FullNext
<1>2. FullInv /\ [Next]_vars => [Act]_vars
    <2> SUFFICES ASSUME FullInv, Next, NEW f \in Files, NEW g \in Files, db = "ready",
                        ~(done'[f] \subseteq done[f]), RunsBefore(g, f), NEW i \in DOMAIN Script[g], ~InForce(g, i)
                 PROVE  \E h \in Files : ~RunsBefore(h, f) /\ Resetting(h, Script[g][i].on)
        OBVIOUS
    <2>0. MInv /\ GoneIsReset
        BY DEF FullInv
    <2>1. PICK m \in Migrators : Start(m) \/ Step(m) \/ Abort(m)
        BY DEF Next
    <2>2. ExecScript(m) \/ ExecStatement(m)
        BY <2>1 DEF Step, Start, CheckDBExists, CreateDatabase, InitSchema, OpenDB, ReadVersion,
                    BumpVersion, FinalVersion, Checkpoint, Abort, dbVars
    <2>3. PICK h \in todo[m] : /\ IsNext(h, todo[m])
                               /\ \/ done' = ScriptEffect(h)
                                  \/ done' = Effect(h, pos[m] + 1)
        BY <2>2 DEF ExecScript, ExecStatement
    <2>4. Working(m) /\ h \in Files
        BY <2>0, <2>2, <2>3 DEF ExecScript, ExecStatement, Working, MInv, TypeInv, TypeOK
    <2>5. f = h
        <3>1. \A k \in Files \ {h} : /\ ScriptEffect(h)[k] \subseteq done[k]
                                     /\ Effect(h, pos[m] + 1)[k] \subseteq done[k]
            BY <2>4 DEF Effect, ScriptEffect
        <3> QED BY <2>3, <3>1
    <2>6. \A k \in Files : RunsBefore(k, f) => Applied(k)
        BY <2>0, <2>3, <2>4, <2>5, EarlierApplied
    <2>7. PICK k \in Files : Resetting(k, Script[g][i].on) /\ ~Applied(k)
        BY <2>0, <2>6, InForceOrReset
    <2> QED BY <2>6, <2>7
<1> QED BY <1>1, <1>2, FullInit, PTL DEF Spec, ScriptsInOrder

(***************************************************************************)
(* Refinement.  Every step of a migrator is a step of CoreSchema or leaves *)
(* schema and version row alone.                                           *)
(***************************************************************************)

Same == Installed' = Installed /\ gone' = gone /\ recorded' = recorded

\* What a script in execution does to the schema.
LEMMA ExecEvolves ==
    ASSUME FullInv, FullInv', NEW m \in Migrators, ExecScript(m) \/ ExecStatement(m)
    PROVE  Schema!Next \/ Same
<1>0. MInv /\ MInv' /\ GoneIsReset'
    BY DEF FullInv
<1>1. CASE UNCHANGED <<done, gone, recorded>>
    BY <1>1 DEF Same, Installed, Applied, ExecScript, ExecStatement
<1>2. CASE ~UNCHANGED <<done, gone, recorded>>
    <2>1. PICK h \in todo[m] :
            /\ IsNext(h, todo[m])
            /\ \/ done' = ScriptEffect(h) /\ gone' = gone
               \/ pc[m] = "exec" /\ done' = Effect(h, pos[m] + 1) /\ gone' = GoneAfter(h, pos[m] + 1)
        BY <1>2 DEF ExecScript, ExecStatement
    <2>2. /\ Working(m) /\ h \in Files /\ db = "ready" /\ db' = "ready"
          /\ recorded \in Versions /\ recorded' \in Versions
        BY <1>0, <2>1 DEF ExecScript, ExecStatement, Working, MInv, TypeInv, TypeOK, WorkTyped
    <2>3. \A q \in Files : RunsBefore(q, h) => Applied(q)
        BY <1>0, <2>1, <2>2, EarlierApplied
    <2>4. \A k \in Files : RunsBefore(k, h) => done'[k] = done[k]
        <3> SUFFICES ASSUME NEW k \in Files, RunsBefore(k, h) PROVE done'[k] = done[k]
            OBVIOUS
        <3>1. k # h /\ ~RunsBefore(h, k)
            BY <2>2, ScriptOrder
        <3>2. Effect(h, pos[m] + 1)[k] = done[k]
            BY <3>1 DEF Effect
        <3>3. ScriptEffect(h)[k] = done[k]
            BY <3>1 DEF ScriptEffect
        <3> QED BY <2>1, <3>2, <3>3
    <2>5. \A k \in Files \ {h} : done'[k] \subseteq done[k]
        BY <2>1, <2>2 DEF Effect, ScriptEffect
    <2>6. \A k \in Files \ {h} : Applied(k)' => Applied(k)
        <3> SUFFICES ASSUME NEW k \in Files \ {h}, Applied(k)' PROVE Applied(k)
            OBVIOUS
        <3>1. done[k] \subseteq DOMAIN Script[k]
            BY <1>0 DEF MInv, TypeInv, TypeOK
        <3> QED BY <2>5, <3>1 DEF Applied
    <2>7. Installed = {f \in Files : Applied(f)} /\ Installed' = {f \in Files : Applied(f)'}
        BY <2>2 DEF Installed
    <2>8. Installed' \subseteq Installed \cup {h}
        BY <2>6, <2>7
    <2>9. \A q \in Installed \ Installed' : q = h \/ RunsBefore(h, q)
        <3> SUFFICES ASSUME NEW q \in Installed \ Installed', q # h PROVE RunsBefore(h, q)
            OBVIOUS
        <3>1. q \in Files /\ ~RunsBefore(q, h)
            BY <2>4, <2>7 DEF Applied
        <3> QED BY <2>2, <3>1, ScriptOrder
    <2>10. gone' \subseteq gone \cup Resets(h)
        <3>1. CASE gone' = gone
            BY <3>1
        <3>2. CASE pc[m] = "exec" /\ gone' = GoneAfter(h, pos[m] + 1)
            <4>1. pos[m] + 1 \in DOMAIN Script[h]
                BY <1>0, <2>1, <2>2, <3>2, ScriptFacts DEF MInv, TypeInv, TypeOK, WorkTyped
            <4>2. Script[h][pos[m] + 1].on \in Tables
                BY <2>2, <4>1, StatementTable
            <4> QED BY <3>2, <4>1, <4>2 DEF GoneAfter, Resets, On
        <3> QED BY <2>1, <3>1, <3>2
    <2>11. \A t \in gone' : \E q \in Files \ Installed' : t \in Resets(q)
        <3> SUFFICES ASSUME NEW t \in gone' PROVE \E q \in Files \ Installed' : t \in Resets(q)
            OBVIOUS
        <3>1. PICK q \in Files : Resetting(q, t)'
            BY <1>0 DEF GoneIsReset
        <3>2. ~Applied(q)' /\ t \in Tables
            BY <1>0, <3>1 DEF Resetting, Applied, On, MInv, TypeInv, TypeOK
        <3>3. t \in Resets(q)
            BY <3>1, <3>2 DEF Resetting, Resets
        <3> QED BY <2>7, <3>2, <3>3
    <2>12. PromisedBy(recorded)' \subseteq Installed'
        BY <1>0, <2>2, <2>7 DEF MInv, RowIsTrue, PromisedBy
    <2>13. \A q \in Files : RunsBefore(q, h) => q \in Installed
        BY <2>3, <2>7
    <2>14. Schema!Evolve
        BY <2>2, <2>8, <2>9, <2>10, <2>11, <2>12, <2>13 DEF Schema!Evolve, PromisedBy
    <2> QED BY <2>14 DEF Schema!Next
<1> QED BY <1>1, <1>2

\* Steps that leave the scripts alone: the version row is still true.
LEMMA RowStep ==
    ASSUME MInv, MInv', UNCHANGED <<done, gone>>, db = db' \/ (db = "absent" /\ db' = "empty")
    PROVE  Schema!Next \/ Same
<1>1. Installed' = Installed
    BY DEF Installed, Applied
<1>2. CASE db = "ready"
    <2>1. recorded \in Versions /\ recorded' \in Versions /\ db' = "ready"
        BY <1>2 DEF MInv, TypeInv, TypeOK
    <2>2. PromisedBy(recorded)' \subseteq Installed'
        BY <2>1 DEF MInv, RowIsTrue, PromisedBy, Installed
    <2>3. Schema!Record
        BY <1>1, <2>1, <2>2 DEF Schema!Record, PromisedBy
    <2> QED BY <2>3 DEF Schema!Next
<1>3. CASE db # "ready"
    <2>1. recorded = NoVersion /\ recorded' = NoVersion
        BY <1>3 DEF MInv, TypeInv, TypeOK
    <2> QED BY <1>1, <2>1 DEF Same
<1> QED BY <1>2, <1>3

\* Under the conditions of WellFormed the migrators, however many, in whatever order
\* and wherever they die, implement CoreSchema.
THEOREM ImplementsCoreSchemaThm ==
    ASSUME WellFormed
    PROVE  Spec => ImplementsCoreSchema
<1>1. FullInv /\ [Next]_vars => FullInv'
    BY FullNext
<1>2. Init => Schema!Init
    <2> SUFFICES ASSUME Init PROVE Schema!Init
        OBVIOUS
    <2>0. gone = {}
        BY DEF Init
    <2>1. CASE db = "absent"
        BY <2>0, <2>1 DEF Init, Schema!Init, Installed
    <2>2. CASE db = "ready"
        <3>1. \A f \in Files : Applied(f) <=> NotNewer(VersionOf[f], recorded)
            <4> TAKE f \in Files
            <4>1. DOMAIN Script[f] # {}
                BY ScriptFacts
            <4> QED BY <2>2, <4>1 DEF Init, Applied
        <3>2. recorded \in Versions
            BY <2>2, MigrateAssumption DEF Init
        <3> QED BY <2>0, <2>2, <3>1, <3>2 DEF Schema!Init, Installed, PromisedBy
    <2> QED BY <2>1, <2>2 DEF Init
<1>3. FullInv /\ FullInv' /\ [Next]_vars => [Schema!Next]_<<Installed, gone, recorded>>
    <2> SUFFICES ASSUME FullInv, FullInv', [Next]_vars PROVE Schema!Next \/ Same
        BY DEF Same
    <2>0. MInv /\ MInv' /\ GoneIsReset
        BY DEF FullInv
    <2>1. CASE UNCHANGED vars
        BY <2>0, <2>1, RowStep DEF vars
    <2>2. ASSUME NEW m \in Migrators, ExecScript(m) \/ ExecStatement(m) PROVE Schema!Next \/ Same
        BY <2>2, ExecEvolves
    <2>3. ASSUME NEW m \in Migrators, InitSchema(m) PROVE Schema!Next \/ Same
        <3>1. CASE db # "empty"
            BY <2>0, <2>3, <3>1, RowStep DEF InitSchema, dbVars
        <3>2. CASE db = "empty"
            <4>1. /\ db' = "ready" /\ recorded' = InitVersion /\ InitVersion \in Versions /\ gone' = gone
                  /\ done' = [f \in Files |->
                        IF NotNewer(VersionOf[f], InitVersion) THEN DOMAIN Script[f] ELSE {}]
                BY <2>3, <3>2, MigrateAssumption DEF InitSchema, dbVars
            <4>2. \A f \in Files : Applied(f)' <=> NotNewer(VersionOf[f], InitVersion)
                <5> TAKE f \in Files
                <5>1. DOMAIN Script[f] # {}
                    BY ScriptFacts
                <5> QED BY <4>1, <5>1 DEF Applied
            <4>3. recorded = NoVersion
                BY <2>0, <3>2 DEF MInv, TypeInv, TypeOK
            <4>4. Installed' = PromisedBy(InitVersion)
                BY <4>1, <4>2 DEF Installed, PromisedBy
            <4> QED BY <4>1, <4>3, <4>4 DEF Schema!Next, Schema!Create
        <3> QED BY <3>1, <3>2
    <2>4. ASSUME NEW m \in Migrators,
                 Start(m) \/ CheckDBExists(m) \/ CreateDatabase(m) \/ OpenDB(m) \/ ReadVersion(m)
                 \/ BumpVersion(m) \/ FinalVersion(m) \/ Checkpoint(m) \/ Abort(m)
          PROVE  Schema!Next \/ Same
        <3>1. UNCHANGED <<done, gone>> /\ (db = db' \/ (db = "absent" /\ db' = "empty"))
            BY <2>4 DEF Start, CheckDBExists, CreateDatabase, OpenDB, ReadVersion, BumpVersion,
                        FinalVersion, Checkpoint, Abort, dbVars
        <3> QED BY <2>0, <3>1, RowStep
    <2> QED BY <2>1, <2>2, <2>3, <2>4 DEF Next, Step
<1> QED BY <1>1, <1>2, <1>3, FullInit, PTL DEF Spec, ImplementsCoreSchema, Schema!Spec

(***************************************************************************)
(* Runs that nobody cuts short.  As long as there was no abort, nothing    *)
(* newer than the version row is in force when nobody is at work, and of   *)
(* the scripts in the list of the one that is, only the statements it has  *)
(* run itself; and a table is gone only while its script is between DROP   *)
(* and CREATE.                                                             *)
(***************************************************************************)
OneOpen == \A m, n \in Migrators : pc[m] \in HasOpen /\ pc[n] \in HasOpen => m = n

Ahead(m) ==
    \A f \in Files :
        /\ f \notin todo[m] /\ Older(version[m], VersionOf[f]) => done[f] = {}
        /\ f \in todo[m] => NotNewer(version[m], VersionOf[f])
        /\ f \in todo[m] /\ ~IsNext(f, todo[m]) => done[f] = {}
        /\ f \in todo[m] /\ pc[m] = "exec" => done[f] \subseteq 1 .. pos[m]

\* Statements k and j of f drop and create table t.
DropsAndCreates(f, k, j, t) ==
    /\ k \in DOMAIN Script[f] /\ j \in DOMAIN Script[f] /\ NextOnTable(f, k, j)
    /\ Script[f][k].does = "drop" /\ Script[f][k].on = t /\ Script[f][j].does = "create"

GoneBy(m) ==
    \A t \in gone :
        /\ pc[m] = "exec"
        /\ \E f \in todo[m] : /\ IsNext(f, todo[m])
                              /\ \E k, j \in Nat : DropsAndCreates(f, k, j, t) /\ k <= pos[m] /\ pos[m] < j

Untouched ==
    aborts = 0 =>
        /\ (\A m \in Migrators : ~Working(m)) =>
             /\ gone = {}
             /\ db = "ready" => \A f \in Files : Older(recorded, VersionOf[f]) => done[f] = {}
        /\ \A m \in Migrators : Working(m) => Ahead(m) /\ GoneBy(m)

CInv == TypeInv /\ OneOpen /\ Untouched

LEMMA CleanInit == Init => CInv
<1> SUFFICES ASSUME Init PROVE CInv
    OBVIOUS
<1>1. OneOpen
    BY DEF Init, OneOpen, HasOpen
<1>2. \A m \in Migrators : ~Working(m)
    BY DEF Init, Working
<1>g. gone = {}
    BY DEF Init
<1>3. ASSUME db = "ready", NEW f \in Files, Older(recorded, VersionOf[f]) PROVE done[f] = {}
    <2>1. recorded \in Versions /\ VersionOf[f] \in Versions
        BY <1>3, MigrateAssumption DEF Init
    <2>2. ~NotNewer(VersionOf[f], recorded)
        BY <1>3, <2>1, Order
    <2> QED BY <1>3, <2>2 DEF Init
<1> QED BY <1>1, <1>2, <1>3, <1>g, TypeInit DEF CInv, Untouched

\* One step of the migrator m.
Acts(m) == Start(m) \/ Step(m) \/ Abort(m)

\* A migrator changes its own variables only.
LEMMA OthersStay ==
    ASSUME TypeInv, NEW m \in Migrators, Acts(m), NEW n \in Migrators \ {m}
    PROVE  /\ pc'[n] = pc[n] /\ version'[n] = version[n] /\ todo'[n] = todo[n] /\ pos'[n] = pos[n]
<1> USE DEF TypeInv, TypeOK, GoTo, Exit, ownVars
<1>1. CASE Start(m)
    BY <1>1 DEF Start
<1>2. CASE CheckDBExists(m)
    BY <1>2 DEF CheckDBExists
<1>3. CASE CreateDatabase(m)
    BY <1>3 DEF CreateDatabase
<1>4. CASE InitSchema(m)
    BY <1>4 DEF InitSchema
<1>5. CASE OpenDB(m)
    BY <1>5 DEF OpenDB
<1>6. CASE ReadVersion(m)
    BY <1>6 DEF ReadVersion
<1>7. CASE ExecScript(m)
    BY <1>7 DEF ExecScript
<1>8. CASE ExecStatement(m)
    BY <1>8 DEF ExecStatement
<1>9. CASE BumpVersion(m)
    BY <1>9 DEF BumpVersion
<1>10. CASE FinalVersion(m)
    BY <1>10 DEF FinalVersion
<1>11. CASE Checkpoint(m)
    BY <1>11 DEF Checkpoint
<1>12. CASE Abort(m)
    BY <1>12 DEF Abort
<1> QED
    BY <1>1, <1>2, <1>3, <1>4, <1>5, <1>6, <1>7, <1>8, <1>9, <1>10, <1>11, <1>12 DEF Acts, Step

\* Who opens the database finds it closed.
LEMMA OpenNext ==
    ASSUME Exclusive, TypeInv, OneOpen, NEW m \in Migrators, Acts(m)
    PROVE  OneOpen'
<1>1. pc'[m] \in HasOpen => pc[m] \in HasOpen \/ ~LockedFor(m)
    <2>1. pc \in [Migrators -> Stopped \cup Running]
        BY DEF TypeInv, TypeOK
    <2>2. db = "absent" => ~LockedFor(m)
        BY DEF TypeInv, WorkTyped, LockedFor, HasOpen
    <2>3. CASE Start(m) \/ CheckDBExists(m) \/ Checkpoint(m) \/ Abort(m) \/ InitSchema(m)
        BY <2>1, <2>3 DEF Start, CheckDBExists, Checkpoint, Abort, InitSchema, GoTo, Exit, HasOpen
    <2>4. CASE CreateDatabase(m) \/ OpenDB(m)
        BY <2>1, <2>2, <2>4 DEF CreateDatabase, OpenDB, GoTo, Exit, HasOpen
    <2>5. CASE ReadVersion(m) \/ ExecScript(m) \/ ExecStatement(m) \/ BumpVersion(m) \/ FinalVersion(m)
        BY <2>5 DEF ReadVersion, ExecScript, ExecStatement, BumpVersion, FinalVersion, HasOpen
    <2> QED BY <2>3, <2>4, <2>5 DEF Acts, Step
<1>2. \A n \in Migrators \ {m} : pc'[n] = pc[n]
    BY OthersStay
<1>3. ASSUME ~LockedFor(m), NEW n \in Migrators \ {m} PROVE pc[n] \notin HasOpen
    BY <1>3 DEF LockedFor, Exclusive
<1> QED BY <1>1, <1>2, <1>3 DEF OneOpen

\* As long as nobody was cut short, the script at hand has not created anything yet
\* that it will create, and the tables it works on are there.
LEMMA NoFailure ==
    ASSUME CInv, aborts = 0, NEW m \in Migrators, pc[m] = "exec", NEW f \in todo[m], IsNext(f, todo[m])
    PROVE  ~Fails(f, pos[m] + 1) /\ (DBType = "postgres" => gone = {} /\ ~ScriptFails(f))
<1>1. /\ f \in Files /\ pos[m] \in Nat /\ Ahead(m) /\ GoneBy(m) /\ todo[m] \in SUBSET Files
      /\ DBType = "postgres" => pos[m] = 0
    BY MigrateAssumption DEF CInv, TypeInv, TypeOK, WorkTyped, Untouched, Working
<1>2. done[f] \subseteq 1 .. pos[m]
    BY <1>1 DEF Ahead
<1>3. pos[m] + 1 \notin done[f] /\ (DBType = "postgres" => done[f] = {})
    BY <1>1, <1>2
<1>4. ASSUME NEW t \in gone
      PROVE  \E k, j \in Nat : DropsAndCreates(f, k, j, t) /\ k <= pos[m] /\ pos[m] < j
    BY <1>1, NextUnique DEF GoneBy
<1>5. DBType = "postgres" => gone = {}
    <2> SUFFICES ASSUME DBType = "postgres", NEW t \in gone PROVE FALSE
        OBVIOUS
    <2>1. PICK k, j \in Nat : DropsAndCreates(f, k, j, t) /\ k <= pos[m]
        BY <1>4
    <2>2. k \in 1 .. Len(Script[f])
        BY <1>1, <2>1, ScriptFacts DEF DropsAndCreates
    <2> QED BY <1>1, <2>1, <2>2
<1>6. ASSUME Script[f][pos[m] + 1].on \in gone PROVE Script[f][pos[m] + 1].does = "create"
    <2> DEFINE i == pos[m] + 1
    <2>1. PICK k, j \in Nat : DropsAndCreates(f, k, j, Script[f][i].on) /\ k <= pos[m] /\ pos[m] < j
        BY <1>4, <1>6
    <2>2. \A l \in (k + 1) .. (j - 1) : Script[f][l].on # Script[f][i].on
        BY <2>1 DEF DropsAndCreates, NextOnTable
    <2>3. j = i \/ i \in (k + 1) .. (j - 1)
        BY <1>1, <2>1
    <2> QED BY <2>1, <2>2, <2>3 DEF DropsAndCreates
<1>7. ~Fails(f, pos[m] + 1)
    BY <1>3, <1>6 DEF Fails
<1>8. DBType = "postgres" => ~ScriptFails(f)
    BY <1>3, <1>5 DEF ScriptFails, Fails
<1> QED BY <1>5, <1>7, <1>8

\* A migrator that works fails only when it is cut short.
LEMMA FailsOnlyByAbort ==
    ASSUME CInv, aborts = 0, NEW m \in Migrators, pc[m] = "exec", Acts(m), ~Abort(m)
    PROVE  pc'[m] # "failed"
<1>1. pc \in [Migrators -> Stopped \cup Running]
    BY DEF CInv, TypeInv, TypeOK
<1>2. CASE ExecScript(m)
    BY <1>1, <1>2, NoFailure DEF ExecScript, GoTo
<1>3. CASE ExecStatement(m)
    BY <1>1, <1>3, NoFailure DEF ExecStatement, GoTo
<1>4. CASE FinalVersion(m)
    BY <1>1, <1>4 DEF FinalVersion, GoTo, Exit
<1> QED
    BY <1>2, <1>3, <1>4 DEF Acts, Step, Start, CheckDBExists, CreateDatabase, InitSchema, OpenDB, ReadVersion,
        BumpVersion, Checkpoint, Stopped

\* A step after which nothing that the invariant speaks of is different.
LEMMA CleanQuiet ==
    ASSUME CInv, NEW m \in Migrators, Acts(m), aborts = 0,
           ~Working(m), ~Working(m)', UNCHANGED <<done, gone, recorded>>, db' = "ready" => db = "ready"
    PROVE  Untouched'
<1>1. \A n \in Migrators \ {m} : /\ pc'[n] = pc[n] /\ version'[n] = version[n]
                                 /\ todo'[n] = todo[n] /\ pos'[n] = pos[n]
    BY OthersStay DEF CInv
<1>2. \A n \in Migrators : Working(n)' <=> Working(n)
    BY <1>1 DEF Working
<1>3. ASSUME NEW n \in Migrators, Working(n)' PROVE Ahead(n)' /\ GoneBy(n)'
    <2>1. n # m /\ Working(n)
        BY <1>2, <1>3
    <2>2. Ahead(n) /\ GoneBy(n)
        BY <2>1 DEF CInv, Untouched
    <2>3. Ahead(n)'
        BY <1>1, <2>1, <2>2 DEF Ahead
    <2>4. pc'[n] = pc[n] /\ todo'[n] = todo[n] /\ pos'[n] = pos[n] /\ gone' = gone
        BY <1>1, <2>1
    <2>5. GoneBy(n)'
        BY <2>2, <2>4 DEF GoneBy, DropsAndCreates
    <2> QED BY <2>3, <2>5
<1>4. ASSUME \A n \in Migrators : ~Working(n)'
      PROVE  gone' = {} /\ (db' = "ready" => \A f \in Files : Older(recorded', VersionOf[f]) => done'[f] = {})
    BY <1>2, <1>4 DEF CInv, Untouched
<1> QED BY <1>3, <1>4 DEF Untouched

LEMMA CleanWork ==
    ASSUME CInv, OneOpen', NEW m \in Migrators, Working(m)', Ahead(m)', GoneBy(m)'
    PROVE  Untouched'
<1>1. \A n \in Migrators : Working(n)' => n = m
    BY DEF OneOpen, Working, HasOpen
<1> QED BY <1>1 DEF Untouched

LEMMA CleanExec ==
    ASSUME CInv, aborts = 0, NEW m \in Migrators, pc[m] = "exec", NEW f \in todo[m], IsNext(f, todo[m]),
           \A g \in Files \ {f} : done'[g] \subseteq done[g],
           UNCHANGED <<version, todo>>,
           pc'[m] = "bump" \/ (pc'[m] = "exec" /\ 1 .. pos[m] \subseteq 1 .. pos'[m] /\ done'[f] \subseteq 1 .. pos'[m])
    PROVE  Ahead(m)'
<1>1. Ahead(m) /\ todo[m] \subseteq Files
    BY DEF CInv, Untouched, Working, TypeInv, TypeOK
<1>2. ASSUME NEW g \in Files, g # f, g \in todo[m] PROVE done'[g] = {}
    <2>1. ~IsNext(g, todo[m])
        BY <1>1, <1>2, NextUnique
    <2> QED BY <1>1, <1>2, <2>1 DEF Ahead
<1>3. ASSUME NEW g \in Files, g \notin todo[m], Older(version[m], VersionOf[g]) PROVE done'[g] = {}
    BY <1>1, <1>3 DEF Ahead
<1>4. \A g \in todo[m] : NotNewer(version[m], VersionOf[g])
    BY <1>1 DEF Ahead
<1> QED BY <1>1, <1>2, <1>3, <1>4 DEF Ahead

\* A statement of a run that nobody cuts short: the table it drops, it will create.
LEMMA CleanGone ==
    ASSUME CInv, aborts = 0, NEW m \in Migrators, pc[m] = "exec", NEW f \in todo[m], IsNext(f, todo[m]),
           gone' = GoneAfter(f, pos[m] + 1), UNCHANGED todo,
           pos[m] + 1 # Len(Script[f]) => pc'[m] = "exec" /\ pos'[m] = pos[m] + 1
    PROVE  GoneBy(m)'
<1> DEFINE i == pos[m] + 1
<1>1. /\ f \in Files /\ pos[m] \in Nat /\ GoneBy(m) /\ todo[m] \in SUBSET Files
      /\ i \in DOMAIN Script[f] /\ DOMAIN Script[f] = 1 .. Len(Script[f]) /\ Len(Script[f]) \in Nat
    <2>1. f \in Files /\ pos[m] \in Nat /\ GoneBy(m) /\ todo[m] \in SUBSET Files /\ pos[m] < Len(Script[f])
        BY MigrateAssumption DEF CInv, TypeInv, TypeOK, WorkTyped, Untouched, Working
    <2> QED BY <2>1, ScriptFacts
<1>2. ASSUME NEW t \in gone'
      PROVE  \E k, j \in Nat : DropsAndCreates(f, k, j, t) /\ k <= i /\ i < j
    <2>1. CASE Script[f][i].does = "drop" /\ Script[f][i].on = t
        <3>1. PICK j \in DOMAIN Script[f] : NextOnTable(f, i, j) /\ Script[f][j].does = "create"
            BY <1>1, <2>1, MigrateAssumption DEF ScriptShape
        <3>2. DropsAndCreates(f, i, j, t) /\ i \in Nat /\ j \in Nat /\ i < j /\ i <= i
            BY <1>1, <2>1, <3>1 DEF DropsAndCreates, NextOnTable
        <3> QED BY <3>2
    <2>2. CASE ~(Script[f][i].does = "drop" /\ Script[f][i].on = t)
        <3>1. t \in gone /\ (Script[f][i].does = "create" => Script[f][i].on # t)
            BY <2>2 DEF GoneAfter
        <3>2. PICK k, j \in Nat : DropsAndCreates(f, k, j, t) /\ k <= pos[m] /\ pos[m] < j
            BY <1>1, <3>1, NextUnique DEF GoneBy
        <3>3. j # i
            BY <3>1, <3>2 DEF DropsAndCreates, NextOnTable
        <3>4. k <= i /\ i < j
            BY <1>1, <3>2, <3>3
        <3> QED BY <3>2, <3>4
    <2> QED BY <2>1, <2>2
<1>3. ASSUME NEW t \in gone' PROVE pc'[m] = "exec" /\ pos'[m] = i
    <2>1. PICK k, j \in Nat : DropsAndCreates(f, k, j, t) /\ i < j
        BY <1>2
    <2>2. j <= Len(Script[f])
        BY <1>1, <2>1 DEF DropsAndCreates
    <2>3. i # Len(Script[f])
        BY <1>1, <2>1, <2>2
    <2> QED BY <2>3
<1> SUFFICES ASSUME NEW t \in gone'
             PROVE  /\ pc'[m] = "exec"
                    /\ \E g \in todo'[m] : /\ IsNext(g, todo'[m])
                                           /\ \E k, j \in Nat : DropsAndCreates(g, k, j, t) /\ k <= pos'[m] /\ pos'[m] < j
    BY DEF GoneBy, DropsAndCreates
<1>4. todo'[m] = todo[m]
    OBVIOUS
<1> HIDE DEF i
<1> QED BY <1>2, <1>3, <1>4

LEMMA CleanStep ==
    ASSUME Exclusive, CInv, NEW m \in Migrators, Acts(m)
    PROVE  Untouched'
<1> SUFFICES ASSUME aborts' = 0 PROVE Untouched'
    BY DEF Untouched
<1>t. TypeInv /\ TypeInv' /\ OneOpen /\ OneOpen'
    BY TypeNext, OpenNext DEF CInv, Next, Acts
<1>a. aborts = 0 /\ ~Abort(m)
    BY MigrateAssumption DEF CInv, TypeInv, TypeOK, Acts, Step, Start, CheckDBExists, CreateDatabase, InitSchema,
        OpenDB, ReadVersion, ExecScript, ExecStatement, BumpVersion, FinalVersion, Checkpoint, Abort
<1>p. pc \in [Migrators -> Stopped \cup Running] /\ todo[m] \subseteq Files
    BY <1>t DEF TypeInv, TypeOK
<1>1. CASE Start(m) \/ CheckDBExists(m) \/ CreateDatabase(m) \/ OpenDB(m) \/ Checkpoint(m)
    <2>1. UNCHANGED <<done, gone, recorded>> /\ (db' = "ready" => db = "ready")
        BY <1>1 DEF Start, CheckDBExists, CreateDatabase, OpenDB, Checkpoint, dbVars
    <2>2. ~Working(m) /\ ~Working(m)'
        BY <1>1, <1>p DEF Start, CheckDBExists, CreateDatabase, OpenDB, Checkpoint, GoTo, Exit, Working, Stopped
    <2> QED BY <1>a, <2>1, <2>2, CleanQuiet
<1>2. CASE InitSchema(m)
    <2>1. ~Working(m) /\ ~Working(m)'
        BY <1>2, <1>p DEF InitSchema, GoTo, Exit, Working
    <2>2. CASE UNCHANGED dbVars
        BY <1>a, <2>1, <2>2, CleanQuiet DEF dbVars
    <2>3. CASE /\ db = "empty" /\ recorded' = InitVersion
               /\ done' = [f \in Files |->
                    IF NotNewer(VersionOf[f], InitVersion) THEN DOMAIN Script[f] ELSE {}]
        <3>1. \A n \in Migrators : ~Working(n)
            BY <1>t, <2>3 DEF TypeInv, WorkTyped, Working
        <3>2. \A n \in Migrators : ~Working(n)'
            BY <2>1, <3>1, <1>t, OthersStay DEF Working
        <3>3. ASSUME NEW f \in Files, Older(recorded', VersionOf[f]) PROVE done'[f] = {}
            <4>1. ~NotNewer(VersionOf[f], InitVersion)
                BY <2>3, <3>3, Order, MigrateAssumption
            <4> QED BY <2>3, <4>1
        <3>4. gone' = {}
            BY <1>2, <1>a, <3>1 DEF InitSchema, dbVars, CInv, Untouched
        <3> QED BY <3>2, <3>3, <3>4 DEF Untouched
    <2> QED BY <1>2, <2>2, <2>3 DEF InitSchema
<1>3. CASE ReadVersion(m)
    <2>1. CASE db # "ready"
        <3>1. ~Working(m) /\ ~Working(m)' /\ UNCHANGED dbVars
            BY <1>3, <2>1, <1>p DEF ReadVersion, GoTo, Exit, Working
        <3> QED BY <1>a, <3>1, CleanQuiet DEF dbVars
    <2>2. CASE db = "ready"
        <3>1. /\ pc[m] = "read" /\ version'[m] = recorded /\ todo'[m] = Selected(recorded, target[m])
              /\ pc'[m] = "exec" /\ pos'[m] = pos[m] /\ done' = done
            BY <1>3, <1>t, <2>2 DEF ReadVersion, GoTo, dbVars, TypeInv, TypeOK
        <3>2. \A n \in Migrators : ~Working(n)
            BY <1>t, <3>1 DEF OneOpen, Working, HasOpen
        <3>3. \A f \in Files : Older(recorded, VersionOf[f]) => done[f] = {}
            BY <1>a, <2>2, <3>2 DEF CInv, Untouched
        <3>4. recorded \in Versions
            BY <1>t, <2>2 DEF TypeInv, TypeOK
        <3>5. ASSUME NEW f \in Files, f \in todo'[m]
              PROVE  done'[f] = {} /\ NotNewer(version'[m], VersionOf[f])
            <4>1. Older(recorded, VersionOf[f])
                BY <3>1, <3>5 DEF Selected
            <4>2. NotNewer(recorded, VersionOf[f])
                BY <3>4, <4>1, Order, ScriptFacts
            <4> QED BY <3>1, <3>3, <4>1, <4>2
        <3>6. Ahead(m)'
            BY <3>1, <3>3, <3>5 DEF Ahead
        <3>7. gone' = {}
            BY <1>3, <1>a, <3>2 DEF ReadVersion, dbVars, CInv, Untouched
        <3> QED BY <1>t, <3>1, <3>6, <3>7, CleanWork DEF Working, GoneBy
    <2> QED BY <2>1, <2>2
<1>4. CASE ExecScript(m)
    <2>1. pc[m] = "exec" /\ DBType = "postgres" /\ UNCHANGED <<db, aborts>>
        BY <1>4 DEF ExecScript
    <2>2. PICK f \in todo[m] : /\ IsNext(f, todo[m]) /\ done' = ScriptEffect(f)
                               /\ GoTo(m, "bump") /\ UNCHANGED ownVars
        BY <1>4, <1>a, <2>1, NoFailure DEF ExecScript
    <2>3. \A g \in Files \ {f} : done'[g] \subseteq done[g]
        BY <2>2 DEF ScriptEffect
    <2>4. pc'[m] = "bump" /\ UNCHANGED <<version, todo>>
        BY <1>p, <2>2 DEF GoTo, ownVars
    <2>5. Ahead(m)'
        BY <1>a, <2>1, <2>2, <2>3, <2>4, CleanExec
    <2>6. gone' = {}
        BY <1>4, <1>a, <2>1, <2>2, NoFailure DEF ExecScript
    <2> QED BY <1>t, <2>4, <2>5, <2>6, CleanWork DEF Working, GoneBy
<1>5. CASE ExecStatement(m)
    <2>1. pc[m] = "exec" /\ UNCHANGED <<db, aborts>>
        BY <1>5 DEF ExecStatement
    <2>2. PICK f \in todo[m] : /\ IsNext(f, todo[m]) /\ done' = Effect(f, pos[m] + 1)
                               /\ gone' = GoneAfter(f, pos[m] + 1)
                               /\ IF pos[m] + 1 = Len(Script[f])
                                  THEN GoTo(m, "bump") /\ pos' = [pos EXCEPT ![m] = 0]
                                  ELSE UNCHANGED pc /\ pos' = [pos EXCEPT ![m] = pos[m] + 1]
                               /\ UNCHANGED <<target, version, todo>>
        BY <1>5, <1>a, <2>1, NoFailure DEF ExecStatement
    <2>3. \A g \in Files \ {f} : done'[g] \subseteq done[g]
        BY <2>2 DEF Effect
    <2>4. f \in Files /\ pos[m] \in Nat /\ done[f] \subseteq 1 .. pos[m]
        BY <1>a, <1>p, <1>t, <2>1 DEF TypeInv, TypeOK, CInv, Untouched, Working, Ahead
    <2>5. done'[f] \subseteq done[f] \cup {pos[m] + 1}
        BY <2>2, <2>4 DEF Effect
    <2>6. pc'[m] = "bump" \/ (pc'[m] = "exec" /\ pos'[m] = pos[m] + 1)
        <3>1. CASE pos[m] + 1 = Len(Script[f])
            BY <1>p, <2>2, <3>1 DEF GoTo
        <3>2. CASE pos[m] + 1 # Len(Script[f])
            BY <1>t, <2>1, <2>2, <3>2 DEF TypeInv, TypeOK
        <3> QED BY <3>1, <3>2
    <2>7. pos'[m] = pos[m] + 1 => 1 .. pos[m] \subseteq 1 .. pos'[m] /\ done'[f] \subseteq 1 .. pos'[m]
        BY <2>4, <2>5
    <2>8. UNCHANGED <<version, todo>>
        BY <2>2
    <2>9. Ahead(m)'
        BY <1>a, <2>1, <2>2, <2>3, <2>6, <2>7, <2>8, CleanExec
    <2>10. pos[m] + 1 # Len(Script[f]) => pc'[m] = "exec" /\ pos'[m] = pos[m] + 1
        BY <1>t, <2>1, <2>2 DEF TypeInv, TypeOK
    <2>11. GoneBy(m)'
        BY <1>a, <2>1, <2>2, <2>8, <2>10, CleanGone
    <2> QED BY <1>t, <2>6, <2>9, <2>11, CleanWork DEF Working
<1>6. CASE BumpVersion(m)
    <2>1. PICK f \in todo[m] : /\ IsNext(f, todo[m])
                               /\ version' = [version EXCEPT ![m] = VersionOf[f]]
                               /\ todo' = [todo EXCEPT ![m] = @ \ {f}]
        BY <1>6 DEF BumpVersion
    <2>2. pc[m] = "bump" /\ pc'[m] = "exec" /\ done' = done
        BY <1>6, <1>p DEF BumpVersion, GoTo
    <2>3. f \in Files /\ version'[m] = VersionOf[f] /\ todo'[m] = todo[m] \ {f}
        BY <1>t, <2>1 DEF TypeInv, TypeOK
    <2>4. Ahead(m) /\ version[m] \in Versions
        BY <1>a, <1>t, <2>2 DEF CInv, Untouched, Working, TypeInv, WorkTyped
    <2>5. ASSUME NEW g \in Files, g \in todo'[m]
          PROVE  done'[g] = {} /\ NotNewer(version'[m], VersionOf[g])
        <3>1. g \in todo[m] /\ g # f /\ RunsBefore(f, g)
            BY <2>1, <2>3, <2>5 DEF IsNext
        <3>2. ~IsNext(g, todo[m])
            BY <1>p, <2>1, <3>1, NextUnique
        <3> QED BY <2>2, <2>3, <2>4, <3>1, <3>2, ScriptOrder DEF Ahead
    <2>6. ASSUME NEW g \in Files, g \notin todo'[m], Older(version'[m], VersionOf[g])
          PROVE  done'[g] = {}
        <3>1. g # f
            BY <2>3, <2>6, Order, ScriptFacts
        <3>2. NotNewer(version[m], VersionOf[f])
            BY <2>3, <2>4 DEF Ahead
        <3>3. Older(version[m], VersionOf[g])
            BY <2>3, <2>4, <2>6, <3>2, Order, ScriptFacts
        <3> QED BY <2>2, <2>3, <2>4, <2>6, <3>1, <3>3 DEF Ahead
    <2>7. Ahead(m)'
        BY <2>5, <2>6 DEF Ahead
    <2>8. gone' = {}
        BY <1>6, <1>a, <2>2 DEF BumpVersion, CInv, Untouched, Working, GoneBy
    <2> QED BY <1>t, <2>2, <2>7, <2>8, CleanWork DEF Working, GoneBy
<1>7. CASE FinalVersion(m)
    <2>1. pc[m] = "exec" /\ todo[m] = {} /\ recorded' = version[m] /\ done' = done
        BY <1>7 DEF FinalVersion
    <2>2. Ahead(m)
        BY <1>a, <2>1 DEF CInv, Untouched, Working
    <2>3. ~Working(m)'
        BY <1>7, <1>p DEF FinalVersion, GoTo, Exit, Working
    <2>4. \A n \in Migrators \ {m} : ~Working(n)
        BY <1>t, <2>1 DEF OneOpen, Working, HasOpen
    <2>5. \A n \in Migrators : ~Working(n)'
        BY <1>t, <2>3, <2>4, OthersStay DEF Working
    <2>6. \A f \in Files : Older(recorded', VersionOf[f]) => done'[f] = {}
        BY <2>1, <2>2 DEF Ahead
    <2>7. gone' = {}
        BY <1>7, <1>a, <2>1 DEF FinalVersion, CInv, Untouched, Working, GoneBy
    <2> QED BY <2>5, <2>6, <2>7 DEF Untouched
<1> QED
    BY <1>a, <1>1, <1>2, <1>3, <1>4, <1>5, <1>6, <1>7 DEF Acts, Step

LEMMA CleanNext ==
    ASSUME Exclusive, CInv, [Next]_vars
    PROVE  CInv'
<1>1. CASE UNCHANGED vars
    <2>1. TypeInv'
        BY TypeNext DEF CInv
    <2>2. OneOpen'
        BY <1>1 DEF CInv, OneOpen, vars
    <2>3. Untouched'
        BY <1>1 DEF CInv, Untouched, Ahead, GoneBy, DropsAndCreates, Working, vars
    <2> QED BY <2>1, <2>2, <2>3 DEF CInv
<1>2. CASE Next
    <2>1. PICK m \in Migrators : Acts(m)
        BY <1>2 DEF Next, Acts
    <2> QED BY <2>1, TypeNext, OpenNext, CleanStep DEF CInv
<1> QED BY <1>1, <1>2

\* Where one migrator at a time is at work, for every folder of scripts and every
\* sequence of runs, with or without -to-version: a script meets what it creates, or
\* misses its table, only after some run was cut short.
THEOREM ConflictOnlyAfterAbortThm ==
    ASSUME Exclusive
    PROVE  Spec => ConflictOnlyAfterAbort
<1> DEFINE Act == \A m \in Migrators : (pc[m] = "exec" /\ pc'[m] = "failed") => aborts' > 0
<1>1. CInv /\ [Next]_vars => CInv'
    BY CleanNext
<1>2. CInv /\ [Next]_vars => [Act]_vars
    <2> SUFFICES ASSUME CInv, Next, NEW m \in Migrators, pc[m] = "exec", pc'[m] = "failed"
                 PROVE  aborts' > 0
        OBVIOUS
    <2>1. PICK n \in Migrators : Acts(n)
        BY DEF Next, Acts
    <2>2. n = m
        BY <2>1, OthersStay DEF CInv
    <2>3. aborts \in Nat
        BY MigrateAssumption DEF CInv, TypeInv, TypeOK
    <2>4. CASE Abort(m)
        BY <2>3, <2>4 DEF Abort
    <2>5. CASE ~Abort(m)
        <3>1. aborts' = aborts
            BY <2>1, <2>2, <2>5 DEF Acts, Step, Start, CheckDBExists, CreateDatabase, InitSchema,
                OpenDB, ReadVersion, ExecScript, ExecStatement, BumpVersion, FinalVersion, Checkpoint
        <3>2. aborts # 0
            BY <2>1, <2>2, <2>5, FailsOnlyByAbort
        <3> QED BY <2>3, <3>1, <3>2
    <2> QED BY <2>4, <2>5
<1> QED BY <1>1, <1>2, CleanInit, PTL DEF Spec, ConflictOnlyAfterAbort
=============================================================================
