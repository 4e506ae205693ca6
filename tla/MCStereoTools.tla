---- MODULE MCStereoTools ----
EXTENDS StereoTools

\* Half a period is over the tolerance.
MCShots == <<<<4, 8>>, <<5, 8>>>>
MCBurstSizes == <<1, 1>>
====
