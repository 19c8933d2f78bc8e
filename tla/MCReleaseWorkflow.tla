-------------------------- MODULE MCReleaseWorkflow --------------------------
(* A small instance of ReleaseWorkflow for TLC. *)
EXTENDS ReleaseWorkflow

\* Two patches of one major version and a candidate; the major tag leads to an
\* older release or is not there.
Patches == {"v1.0.1", "v1.0.2"}
Tags == Patches \cup {"v1.1.0-rc.1"}
Older == {"v1.0.0", "none"}
=============================================================================
