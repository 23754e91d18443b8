-------------------------- MODULE VoltgoConnection --------------------------
(***************************************************************************)
(* The Voltgo collector (voltgo/collector.go) and the Bluetooth link it    *)
(* keeps from one collection to the next.                                  *)
(*                                                                         *)
(* GetStatus, GetInfo and Close hold the mutex mu from beginning to end.   *)
(* GetStatus and GetInfo connect if there is no link, read, and drop the   *)
(* link when the read fails.  The battery may go out of reach at any       *)
(* moment, which the collector sees at its next operation.  A link that    *)
(* cannot be disconnected is forgotten all the same, and may stay up.      *)
(***************************************************************************)
EXTENDS Naturals, Sequences

CONSTANTS
  Collections,   \* the goroutines that call GetStatus and GetInfo
  MaxConnects    \* bound: how often the battery is connected to

ASSUME ConnectsAssumption == MaxConnects \in Nat

VARIABLES
  mu,        \* Collector.mu: nobody or one of Collections
  battery,   \* Collector.battery: the link in use, or nil
  at,        \* where each goroutine is in GetStatus or GetInfo
  links,     \* the links that are up, as the Bluetooth adapter sees it
  openedBy,  \* history: who made each link
  broken,    \* history: the links a read failed on
  undropped  \* history: the links whose Disconnect failed while they were up

connection == <<mu, battery, at, links, openedBy, broken, undropped>>

nil == 0

Linked == 1..MaxConnects

Inside == {"connecting", "reading"}

ConnectionTypeOK ==
  /\ mu \subseteq Collections
  /\ battery \in Linked \cup {nil}
  /\ at \in [Collections -> Inside \cup {"outside", "locking", "ok", "failed"}]
  /\ openedBy \in Seq(Collections) /\ Len(openedBy) <= MaxConnects
  /\ links \subseteq Linked
  /\ broken \subseteq Linked
  /\ undropped \subseteq Linked

InitConnection ==
  /\ mu = {}
  /\ battery = nil
  /\ at = [g \in Collections |-> "outside"]
  /\ links = {}
  /\ openedBy = <<>>
  /\ broken = {}
  /\ undropped = {}

-----------------------------------------------------------------------------
Reach(g, place) == at' = [at EXCEPT ![g] = place]

\* GetStatus or GetInfo is called.
Ask(g) == Reach(g, "locking") /\ UNCHANGED <<mu, battery, links, openedBy, broken, undropped>>

LockMu(g) ==
  /\ at[g] = "locking"
  /\ mu = {} /\ mu' = {g}
  /\ Reach(g, "connecting")
  /\ UNCHANGED <<battery, links, openedBy, broken, undropped>>

\* Mutant: the battery is forgotten but not disconnected.
dropConnectionLocked_Forgets == battery' = nil /\ UNCHANGED <<links, undropped>>

\* An error of Disconnect is logged; the battery is forgotten either way.
dropConnectionLocked ==
  /\ battery' = nil
  /\ \/ links' = links \ {battery} /\ UNCHANGED undropped
     \/ /\ battery \in links
        /\ undropped' = undropped \cup {battery}
        /\ UNCHANGED links

Reuse(g) ==
  /\ at[g] = "connecting"
  /\ battery \in links
  /\ Reach(g, "reading")
  /\ UNCHANGED <<mu, battery, links, openedBy, broken, undropped>>

Connected(g) ==
  /\ Len(openedBy) < MaxConnects
  /\ openedBy' = Append(openedBy, g)
  /\ battery' = Len(openedBy) + 1
  /\ links' = links \cup {Len(openedBy) + 1}
  /\ Reach(g, "reading")
  /\ UNCHANGED undropped

\* Mutant: the mutex stays locked when the battery cannot be reached.
Connect_KeepsLock(g) ==
  /\ at[g] = "connecting" /\ battery \notin links
  /\ \/ Connected(g)
     \/ Reach(g, "failed") /\ dropConnectionLocked /\ UNCHANGED openedBy
  /\ UNCHANGED <<mu, broken>>

\* There is no link, or it was lost: the battery is connected to (again), which
\* succeeds or fails before its timeout.
Connect(g) ==
  /\ at[g] = "connecting" /\ battery \notin links
  /\ \/ Connected(g) /\ UNCHANGED mu
     \/ Reach(g, "failed") /\ mu' = {} /\ dropConnectionLocked /\ UNCHANGED openedBy
  /\ UNCHANGED broken

ReadOK(g) ==
  /\ at[g] = "reading" /\ battery \in links
  /\ Reach(g, "ok") /\ mu' = {}
  /\ UNCHANGED <<battery, links, openedBy, broken, undropped>>

\* Mutant: the link is kept when a read fails.
ReadError_Keeps(g) ==
  /\ at[g] = "reading"
  /\ Reach(g, "failed") /\ mu' = {}
  /\ broken' = broken \cup {battery}
  /\ UNCHANGED <<battery, links, openedBy, undropped>>

\* A read may fail with the link up, by its timeout or its contents.
ReadError(g) ==
  /\ at[g] = "reading"
  /\ Reach(g, "failed") /\ mu' = {}
  /\ broken' = broken \cup {battery}
  /\ dropConnectionLocked
  /\ UNCHANGED openedBy

CollectorStep(g) == Reuse(g) \/ Connect(g) \/ ReadOK(g) \/ ReadError(g)

\* The battery goes out of reach.
Lose ==
  /\ \E link \in links : links' = links \ {link}
  /\ UNCHANGED <<mu, battery, at, openedBy, broken, undropped>>

\* Mutant: Close releases the adapter with the link still up.
CloseCollector_KeepsLink == mu = {} /\ UNCHANGED connection

\* Collector.Close.  Releasing the adapter succeeds or fails; that it may take
\* down the links left is for Lose to show.
CloseCollector ==
  /\ mu = {}
  /\ dropConnectionLocked
  /\ UNCHANGED <<mu, at, openedBy, broken>>

-----------------------------------------------------------------------------
(* Properties                                                              *)

\* A link that is up is the one the collector knows of, or one that was to be
\* disconnected and could not be: none is left behind untried when it is
\* replaced, given up or closed (collector.go:159).
NoLinkLeftBehind == links \subseteq {battery} \cup undropped

\* A link that a read failed on is never read from again: the next collection
\* makes a new one (collector.go:12 "drops it on read errors so the next cycle
\* reconnects").
BrokenLinksDropped ==
  \A g \in Collections : at[g] = "reading" => battery \notin broken
=============================================================================
