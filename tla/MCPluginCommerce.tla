-------------------------- MODULE MCPluginCommerce --------------------------
\* PluginCommerce; the constants are in the .cfg files.
EXTENDS PluginCommerce
=============================================================================
