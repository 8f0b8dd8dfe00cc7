----------------------------- MODULE MCGateway -----------------------------
EXTENDS ArtifactsGateway
=============================================================================
