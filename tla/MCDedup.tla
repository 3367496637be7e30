-------------------------------- MODULE MCDedup --------------------------------
\* Dedup.tla for TLC.  TTL, Gap and Period keep the order of the real values
\* (30s < 60s, a few messages per period) at the smallest size that has every
\* boundary: an entry can be TTL old, older, and outlive a cleanup.
EXTENDS Dedup
================================================================================
