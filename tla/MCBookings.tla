----------------------------- MODULE MCBookings -----------------------------
(* Small instances of Bookings for TLC.                                    *)
EXTENDS Bookings, TLC

\* Without legacy rows, requests and booking ids are interchangeable.
Symmetry == Permutations(Request) \cup Permutations(Booking)

=============================================================================
