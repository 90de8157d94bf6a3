--------------------------- MODULE ValueCatalogue ---------------------------
(***************************************************************************)
(* The packages and Token Bank plans operators keep for sale: creating,    *)
(* updating and retiring them (postgres_account_value.rs).  Every write is *)
(* found again by its Idempotency-Key, but a row keeps the key of its last *)
(* write only: a retry of an earlier one is carried out again, on top of   *)
(* what was written since.                                                 *)
(*                                                                         *)
(* A plan is known by its code.  A package has an id besides: updates may  *)
(* name either.                                                            *)
(***************************************************************************)
EXTENDS Naturals, FiniteSets

CONSTANTS PackageIds, Codes,   \* names of packages; codes of packages and plans
          Commands,   \* Idempotency-Keys: an operator never uses one twice
          Workloads,  \* what the commands may be, by key
          Operators,  \* calls that can be under way at the same time
          NoId

\* What the constructors of the commands let through.
UpsertPackageCommands == [op : {"putPackage"}, id : PackageIds \cup {NoId}, code : Codes,
                          status : {"active", "retired"}, price : Nat]
RetirePackageCommands == [op : {"retirePackage"}, id : PackageIds]
UpsertPlanCommands == [op : {"putPlan"}, code : Codes, status : {"active", "retired"}, price : Nat]
RetirePlanCommands == [op : {"retirePlan"}, code : Codes]

ASSUME CatalogueAssumption ==
  \A w \in Workloads :
    /\ DOMAIN w = Commands
    /\ \A k \in Commands : w[k] \in UpsertPackageCommands \cup RetirePackageCommands
                                 \cup UpsertPlanCommands \cup RetirePlanCommands

VARIABLES says,       \* the command of each key
          packages, plans,  \* commerce_account_value_package, commerce_token_bank_plan
          operator    \* what each call is about to do

catalogueVars == <<says, packages, plans, operator>>

NoRow == [key |-> "none", code |-> "none", status |-> "none", price |-> 0, madeBy |-> "none"]
Packages == {i \in PackageIds : packages[i] # NoRow}
Plans == {x \in Codes : plans[x] # NoRow}
Resting == [at |-> "rest", key |-> "none"]

CatalogueInit == /\ says \in Workloads
                 /\ packages = [i \in PackageIds |-> NoRow]
                 /\ plans = [x \in Codes |-> NoRow]
                 /\ operator = [c \in Operators |-> Resting]

Rest(c) == operator' = [operator EXCEPT ![c] = Resting]
Turn(c, at) == operator' = [operator EXCEPT ![c].at = at]

\* The row a command writes anew.
Written(k, code) == [key |-> k, code |-> code, status |-> says[k].status,
                     price |-> says[k].price, madeBy |-> k]
\* What an update leaves of the row: its code and its id.
Rewritten(row, k) == [Written(k, row.code) EXCEPT !.madeBy = row.madeBy]

\* Mutant: retiring does not take over the key.
RetiredKeepsKey(row, k) == [row EXCEPT !.status = "retired"]

Retired(row, k) == [row EXCEPT !.status = "retired", !.key = k]

PackageByKey(k) == \E i \in Packages : packages[i].key = k
PlanByKey(k) == \E x \in Plans : plans[x].key = k

\* The first statement of every command: a row with its key ends the call.
FindRow(c, k, found) == /\ operator[c] = Resting
                       /\ ~found
                       /\ operator' = [operator EXCEPT ![c] = [at |-> says[k].op, key |-> k]]
                       /\ UNCHANGED <<says, packages, plans>>
LookUpPackage(c, k) == FindRow(c, k, PackageByKey(k))
LookUpPlan(c, k) == FindRow(c, k, PlanByKey(k))

\* The operators' endpoints.  The body of an update names a code, too.
BeginCreatePackage(c, k) == /\ says[k].op = "putPackage" /\ says[k].id = NoId
                            /\ LookUpPackage(c, k)
BeginUpdatePackage(c, k) == /\ says[k].op = "putPackage" /\ says[k].id # NoId
                            /\ LookUpPackage(c, k)
BeginRetirePackage(c, k) == says[k].op = "retirePackage" /\ LookUpPackage(c, k)
BeginPutPlan(c, k) == says[k].op = "putPlan" /\ LookUpPlan(c, k)
BeginRetirePlan(c, k) == says[k].op = "retirePlan" /\ LookUpPlan(c, k)

\* Another row may have taken the key since the lookup.
PackageKeyFree(i, k) == \A j \in Packages \ {i} : packages[j].key # k
PlanKeyFree(x, k) == \A y \in Plans \ {x} : plans[y].key # k

\* Rows with the command's id or its code; two of them cannot both take the key.
Named(k) == {i \in Packages : i = says[k].id \/ packages[i].code = says[k].code}

UpdatePackage(c) ==
  LET k == operator[c].key
  IN /\ operator[c].at = "putPackage"
     /\ IF Named(k) = {}
        THEN /\ Turn(c, "insertPackage")
             /\ UNCHANGED packages
        ELSE /\ packages' = IF \E i \in Named(k) : Named(k) = {i} /\ PackageKeyFree(i, k)
                             THEN [i \in PackageIds |-> IF i \in Named(k)
                                     THEN Rewritten(packages[i], k) ELSE packages[i]]
                             ELSE packages
             /\ Rest(c)
     /\ UNCHANGED <<says, plans>>

Insertable(i, k) == /\ i \notin Packages
                    /\ PackageKeyFree(i, k)
                    /\ \A j \in Packages : packages[j].code # says[k].code

\* The id of the route, or a new one.  Nothing of an insert that is refused stays.
InsertPackage(c) ==
  LET k == operator[c].key
      ids == IF says[k].id # NoId THEN {says[k].id} ELSE PackageIds \ Packages
  IN /\ operator[c].at = "insertPackage"
     /\ \E i \in ids :
          packages' = IF Insertable(i, k)
                      THEN [packages EXCEPT ![i] = Written(k, says[k].code)] ELSE packages
     /\ Rest(c)
     /\ UNCHANGED <<says, plans>>

RetirePackage(c) ==
  LET k == operator[c].key
      i == says[k].id
  IN /\ operator[c].at = "retirePackage"
     /\ packages' = IF i \in Packages /\ PackageKeyFree(i, k)
                    THEN [packages EXCEPT ![i] = Retired(@, k)] ELSE packages
     /\ Rest(c)
     /\ UNCHANGED <<says, plans>>

UpdatePlan(c) ==
  LET k == operator[c].key
      x == says[k].code
  IN /\ operator[c].at = "putPlan"
     /\ IF x \notin Plans THEN Turn(c, "insertPlan") /\ UNCHANGED plans
        ELSE /\ plans' = IF PlanKeyFree(x, k) THEN [plans EXCEPT ![x] = Rewritten(@, k)] ELSE plans
             /\ Rest(c)
     /\ UNCHANGED <<says, packages>>

InsertPlan(c) ==
  LET k == operator[c].key
      x == says[k].code
  IN /\ operator[c].at = "insertPlan"
     /\ plans' = IF x \notin Plans /\ PlanKeyFree(x, k)
                 THEN [plans EXCEPT ![x] = Written(k, x)] ELSE plans
     /\ Rest(c)
     /\ UNCHANGED <<says, packages>>

RetirePlan(c) ==
  LET k == operator[c].key
      x == says[k].code
  IN /\ operator[c].at = "retirePlan"
     /\ plans' = IF x \in Plans /\ PlanKeyFree(x, k)
                 THEN [plans EXCEPT ![x] = Retired(@, k)] ELSE plans
     /\ Rest(c)
     /\ UNCHANGED <<says, packages>>

\* An error of the store or a crash: the transaction rolls back.
Drop(c) == /\ operator[c] # Resting
           /\ Rest(c)
           /\ UNCHANGED <<says, packages, plans>>

CatalogueNext == \E c \in Operators :
  \/ \E k \in Commands : \/ BeginCreatePackage(c, k) \/ BeginUpdatePackage(c, k)
                         \/ BeginRetirePackage(c, k)
                         \/ BeginPutPlan(c, k) \/ BeginRetirePlan(c, k)
  \/ UpdatePackage(c) \/ InsertPackage(c) \/ RetirePackage(c)
  \/ UpdatePlan(c) \/ InsertPlan(c) \/ RetirePlan(c)
  \/ Drop(c)

CatalogueSpec == CatalogueInit /\ [][CatalogueNext]_catalogueVars

-----------------------------------------------------------------------------
(* Properties.                                                             *)

Obeys(row) == IF says[row.key].op \in {"retirePackage", "retirePlan"} THEN row.status = "retired"
              ELSE row.status = says[row.key].status /\ row.price = says[row.key].price

\* A row shows what the command whose key it carries asked for: that command,
\* when it is repeated, is answered by the row without being carried out.
RowObeysItsKey == /\ \A i \in Packages : Obeys(packages[i])
                  /\ \A x \in Plans : Obeys(plans[x])
=============================================================================
