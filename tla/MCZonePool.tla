------------------------------ MODULE MCZonePool ------------------------------
(* Instantiates ZonePool for TLC: which of the calls of Create, Open,     *)
(* Close and Destroy may fail.                                             *)
EXTENDS ZonePool

\* Every call into Pool, ShelfRegion and the shelf heap may fail.
MCAllFailures == FallibleCalls

\* A Create that fails while adding the zone shelf, and a Destroy that
\* fails while removing the header shelf.
MCRetryFailures == {"add_zone", "remove_header"}

\* One of the error exits of Create that return with the pool open.
MCLeakFailures == {"region_map"}

\* A Close whose region_->Unmap fails, after rmb_ was deleted.
MCCloseFailures == {"unmap"}

=============================================================================
