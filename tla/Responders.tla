----------------------------- MODULE Responders -----------------------------
(***************************************************************************)
(* What a node decides about an incoming RPC, whatever role it runs:       *)
(* respond_to_request_vote and respond_to_append_entries of                *)
(* src/zeroraft/src/role/common.rs, as functions of the node's state and   *)
(* the request.  The modules that own the state apply the decisions.       *)
(***************************************************************************)
EXTENDS Store

CONSTANT
    None        \* Option::None

-----------------------------------------------------------------------------
(***************************************************************************)
(* RequestVote                                                             *)
(***************************************************************************)

\* The candidate's log is behind ours: older last term, or same last term
\* and fewer entries.
IncompleteLog(log, req) ==
    \/ get_last_term(log) > req.last_log_term
    \/ /\ get_last_term(log) = req.last_log_term
       /\ get_last_index(log) > req.last_log_index

\* The early returns, in the order of the code.  Whoever is in our_term
\* already and has voted_for set is refused, the same candidate asking again
\* included; the log is looked at last.
RequestVoteReason(our_term, voted_for, log, req) ==
    IF our_term = req.term /\ voted_for # None THEN "AlreadyVoted"
    ELSE IF our_term > req.term THEN "StaleTerm"
    ELSE IF IncompleteLog(log, req) THEN "IncompleteLog"
    ELSE "Ok"

\* The answers given after the node has stored the candidate's term and id
\* and become a follower: also the refusal of an incomplete log.
AdoptingReasons == {"IncompleteLog", "Ok"}

-----------------------------------------------------------------------------
(***************************************************************************)
(* AppendEntries                                                           *)
(***************************************************************************)

\* Mutant: only the length of the log is compared.
AppendEntriesReason_LengthOnly(our_term, log, req) ==
    IF our_term > req.term THEN "StaleTerm"
    ELSE IF get_last_index(log) < req.prev_log_index THEN "LogMismatch"
    ELSE "Ok"

AppendEntriesReason(our_term, log, req) ==
    IF our_term > req.term THEN "StaleTerm"
    ELSE IF get_last_index(log) < req.prev_log_index THEN "LogMismatch"
    ELSE IF /\ has_entry(log, req.prev_log_index)
            /\ get_entry(log, req.prev_log_index) # req.prev_log_term
         THEN "LogMismatch"
    ELSE "Ok"

\* The log after a request answered "Ok": everything past prev_log_index is
\* removed, then the entries are appended.  An empty request truncates too.
AppendedLog(log, req) ==
    append_entries(remove_entries_after(log, req.prev_log_index), req.entries)

=============================================================================
