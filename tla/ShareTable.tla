----------------------------- MODULE ShareTable -----------------------------
(***************************************************************************)
(* The SharedPassword rows of the server: created, opened, revoked, taken  *)
(* down, and swept when their time is over (apps/passwd).  A share is a    *)
(* UUID, never used twice; what is encrypted in it is opaque, and time is  *)
(* no more than the step at which a row is past its expiry.                *)
(***************************************************************************)
EXTENDS Naturals, FiniteSets

CONSTANTS
    Shares,     \* bound: the UUIDs
    BatchSize   \* the rows delete_expired takes at a time, at most

ASSUME ShareAssumption == BatchSize \in Nat \ {0}

VARIABLES
    row,    \* [Shares -> none, live, expired (not yet deleted) or gone]
    sweep   \* the rows the cron job of the moment is after: none, it is not running

shareVars == <<row, sweep>>

Rows == {s \in Shares : row[s] \in {"live", "expired"}}
Become(S, state) == row' = [s \in Shares |-> IF s \in S THEN state ELSE row[s]]

ShareInit ==
    /\ row = [s \in Shares |-> "none"]
    /\ sweep = {}

\* One new UUID is as good as another.
create_share(s) ==
    /\ row[s] = "none"
    /\ s = CHOOSE t \in Shares : row[t] = "none"
    /\ Become({s}, "live")

\* A row that is not there (any more) is a success as well.
delete_user_share(s) == Become({s} \cap Rows, "gone")

\* expires_at passes.
expires_at(s) ==
    /\ row[s] = "live"
    /\ Become({s}, "expired")
    /\ UNCHANGED sweep

\* RetrieveShareView deletes the row it finds expired; it counts the access of
\* any other, which nothing depends on.
RetrieveShare(s) ==
    /\ row[s] = "expired"
    /\ Become({s}, "gone")
    /\ UNCHANGED sweep

\* The takedown command deletes one share by its UUID.
delete_share(s) ==
    /\ s \in Rows
    /\ Become({s}, "gone")
    /\ UNCHANGED sweep

\* Mutant: the rows that are not past the cutoff.
expired_shares_Inverted == {s \in Shares : row[s] = "live"}

expired_shares == {s \in Shares : row[s] = "expired"}

\* The command starts, with its "now" for a cutoff; the batches select again
\* and again by that cutoff.
delete_expired ==
    /\ sweep = {}
    /\ expired_shares # {}
    /\ sweep' = expired_shares
    /\ UNCHANGED row

\* _delete_in_batches: the ids of a batch are read and then deleted.  A row
\* that another delete takes in between is no loss, so this is one step.
DeleteBatch(S) ==
    /\ S # {} /\ S \subseteq sweep \cap Rows /\ Cardinality(S) <= BatchSize
    /\ Become(S, "gone")
    /\ sweep' = sweep \ S

\* The last batch was empty.
SweepEnds ==
    /\ sweep # {} /\ sweep \cap Rows = {}
    /\ sweep' = {}
    /\ UNCHANGED row

SweepStep == SweepEnds \/ \E S \in SUBSET Shares : DeleteBatch(S)

ShareNext ==
    \/ \E s \in Shares : expires_at(s) \/ RetrieveShare(s) \/ delete_share(s)
    \/ delete_expired
    \/ SweepStep

ShareTypeOK ==
    /\ row \in [Shares -> {"none", "live", "expired", "gone"}]
    /\ sweep \subseteq Shares

\* A row past its expiry is deleted, by the nightly command if nobody opens it.
ExpiredSharesGo == \A s \in Shares : row[s] = "expired" ~> row[s] = "gone"
=============================================================================
