--------------------------- MODULE MCLiveExecutor ---------------------------
(***************************************************************************)
(* LiveExecutor on small instances: two BUY names b1 and b2, one SELL name *)
(* s1, and the sets of intents a tick may bring.                           *)
(***************************************************************************)
EXTENDS LiveExecutor, FiniteSetsExt

CONSTANTS b1, b2, s1

I(p, q, x) == [parent |-> p, qty |-> q, price |-> x]

\* An entry of two units; later both names, with the first resized to one.
ResizedEntries == {{I(b1, 2, 1)}, {I(b1, 1, 1), I(b2, 1, 1)}}

\* Ticks without an intent still chase an unfinished exit.
OneSell == {{}, {I(s1, 2, 1)}}

-----------------------------------------------------------------------------
(* Stronger statements made of the executor, which runs refute.            *)

\* RestartSafeCap: the cap holds across a restart, "because it is recomputed
\* from the persisted book" (entry_notional_submitted).
RestartSafeCap == pushed <= Cap

BrokerFilled(p) ==
    MapThenSumSet(LAMBDA n : broker[<<p, n>>].filled, Attempts)

\* RetriesNeverOverfill: retries never make the filled total of a parent
\* exceed its target (section 7; the remainder chase of process_tick).
RetriesNeverOverfill ==
    \A p \in Parents :
        Registered(book, p) => BrokerFilled(p) <= book.parent[p].target
=============================================================================
