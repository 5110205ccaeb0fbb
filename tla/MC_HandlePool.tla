--------------------------- MODULE MC_HandlePool ---------------------------
EXTENDS HandlePool

\* Two connections: a dialled and an accepted one can replace each other in
\* the pool, so a handle of the older one can outlive its entry.  Two
\* tasks let a get_or_dial wait on another's dial and two handles race.
MCConns == {"c1", "c2"}
MCUsers == {"u1", "u2"}

=============================================================================
