--------------------------- MODULE MCToolApproval ---------------------------
EXTENDS ToolApproval

CONSTANTS sendA, sendB

\* One tool, two sets of arguments.
OneTool(r) == "send"

=============================================================================
